---- MODULE Spec2Model ----
(***************************************************************************)
(* Callout pip-alert: alarm ingestion, on-call resolution, the incident    *)
(* lifecycle and its timeline.                                             *)
(*                                                                         *)
(* Strings that the code inspects character by character (alarm names) are *)
(* sequences of one-character strings; opaque identifiers are strings.     *)
(* Times are epoch milliseconds.                                           *)
(***************************************************************************)
EXTENDS Integers, Sequences, FiniteSets, TLC

VARIABLES
    clock,      \* Date.now() of the backend, epoch milliseconds
    incidents,  \* INCIDENTS_TABLE: the items written, in write order
    origin,     \* history: for each written item, the delivery it came from
    hs,         \* one alarm-handler invocation per handler id
    sevName,    \* determineSeverity: the alarm name under evaluation
    sevResult,  \* determineSeverity: the value returned ("none" before the call)
    views,      \* per client, the incident states of its last fetched query data
    requests,   \* acknowledge/resolve calls in flight to the incident store
    served,     \* the answer to the latest acknowledge/resolve call
    cachedApnsConfig,  \* apns.ts: the module-level credential cache
    sends,      \* one sendPushNotification call per call id
    secretsSent,\* history: GetSecretValueCommand requests sent so far
    contacted,  \* history: the (call, host) pairs http2.connect was called with
    sequenceState, \* demoSequence: the module-level SequenceState
    timers,     \* the pending timers of the page, in creation order
    elapsed,    \* milliseconds since the latest effective startDemoSequence
    demoList,   \* what getIncidents() returns: incidents per state
    generation, \* history: effective startDemoSequence calls so far
    completions,\* history: onComplete invocations of the current sequence
    lastEvent,  \* history: the latest operation and the callbacks it invoked
    devicesTable, \* DEVICES_TABLE: the items, keyed by (user_id, device_token)
    deviceCall, \* the devices handler invocation in progress, or the last one
    localStorage, \* the page's localStorage: the backends item and the active id
    uuids,      \* history: crypto.randomUUID() values drawn by the page
    published,  \* cloud demo: the alarm messages published to the topic so far
    delivered   \* cloud demo: the published messages the alarm handler has processed

vars == <<clock, incidents, origin, hs, sevName, sevResult, views, requests, served,
          cachedApnsConfig, sends, secretsSent, contacted,
          sequenceState, timers, elapsed, demoList, generation, completions, lastEvent,
          devicesTable, deviceCall, localStorage, uuids, published, delivered>>

ingestVars == <<clock, incidents, origin, hs>>
sevVars == <<sevName, sevResult>>
lifeVars == <<views, requests, served>>
pushVars == <<cachedApnsConfig, sends, secretsSent, contacted>>
demoVars == <<sequenceState, timers, elapsed, demoList, generation, completions, lastEvent>>
deviceVars == <<devicesTable, deviceCall>>
backendVars == <<localStorage, uuids>>
cloudVars == <<published, delivered>>
moreVars == <<deviceVars, backendVars, cloudVars>>

(***************************************************************************)
(* Bounds                                                                  *)
(***************************************************************************)
MaxBatch == 2       \* records per delivered batch
MaxTicks == 3       \* clock advances, half a second each
MaxParts == 2       \* fragments concatenated into an alarm name
MaxSends == 2       \* sendPushNotification calls of one process
MaxStarts == 2      \* effective startDemoSequence calls of one page
MaxBackends == 4    \* addBackend calls of one page

\* the handler invocations of a behaviour
Handlers == {1}

NULL == "null"
NoTime == 0 - 1    \* an optional timestamp that is not set

Times == {500 * k : k \in 0..MaxTicks}

(***************************************************************************)
(* Strings                                                                 *)
(***************************************************************************)
UpperChars == <<"A", "B", "C", "D", "E", "F", "G", "H", "I", "J", "K", "L", "M",
                "N", "O", "P", "Q", "R", "S", "T", "U", "V", "W", "X", "Y", "Z">>
LowerChars == <<"a", "b", "c", "d", "e", "f", "g", "h", "i", "j", "k", "l", "m",
                "n", "o", "p", "q", "r", "s", "t", "u", "v", "w", "x", "y", "z">>

\* String.prototype.toLowerCase on one character
toLowerChar(c) ==
    IF \E i \in 1..Len(UpperChars) : UpperChars[i] = c
    THEN LowerChars[CHOOSE i \in 1..Len(UpperChars) : UpperChars[i] = c]
    ELSE c

\* String.prototype.toLowerCase
toLowerCase(s) == [i \in 1..Len(s) |-> toLowerChar(s[i])]

\* String.prototype.includes
includes(s, sub) ==
    \E i \in 0..(Len(s) - Len(sub)) : SubSeq(s, i + 1, i + Len(sub)) = sub

kwCritical == <<"c", "r", "i", "t", "i", "c", "a", "l">>
kwError == <<"e", "r", "r", "o", "r">>
kwWarning == <<"w", "a", "r", "n", "i", "n", "g">>
kwWarn == <<"w", "a", "r", "n">>

\* a plausible slip: the warning keywords are tested before the critical ones
determineSeverityWarnFirst(alarmName) ==
    LET lowerName == toLowerCase(alarmName) IN
    IF includes(lowerName, kwWarning) \/ includes(lowerName, kwWarn) THEN "warning"
    ELSE IF includes(lowerName, kwCritical) \/ includes(lowerName, kwError) THEN "critical"
    ELSE "info"

determineSeverity(alarmName) ==
    LET lowerName == toLowerCase(alarmName) IN
    IF includes(lowerName, kwCritical) \/ includes(lowerName, kwError) THEN "critical"
    ELSE IF includes(lowerName, kwWarning) \/ includes(lowerName, kwWarn) THEN "warning"
    ELSE "info"

(***************************************************************************)
(* Alarm names                                                             *)
(***************************************************************************)
Fragments ==
    { <<"c", "r", "i", "t", "i", "c", "a", "l">>,
      <<"C", "R", "I", "T", "I", "C", "A", "L">>,
      <<"E", "r", "r", "o", "r">>,
      <<"W", "a", "r", "n", "i", "n", "g">>,
      <<"W", "A", "R", "N">>,
      <<"c", "r", "i", "t">>,
      <<"i", "c", "a", "l">>,
      <<"e", "r", "r">>,
      <<"O", "R">>,
      <<"w", "a", "r">>,
      <<"N">>,
      <<"-">>,
      <<"c", "p", "u">> }

RECURSIVE NamesOf(_)
NamesOf(n) ==
    IF n = 0 THEN { <<>> }
    ELSE LET shorter == NamesOf(n - 1) IN
         shorter \cup { a \o f : a \in shorter, f \in Fragments }

AlarmNames == NamesOf(MaxParts)

(***************************************************************************)
(* determineSeverity on its own                                            *)
(***************************************************************************)
SevInit ==
    /\ sevName \in AlarmNames
    /\ sevResult = "none"

CallDetermineSeverity ==
    /\ sevResult = "none"
    /\ sevResult' = determineSeverity(sevName)
    /\ UNCHANGED sevName

IngestIdle ==
    /\ clock = 0
    /\ incidents = <<>>
    /\ origin = <<>>
    /\ hs = [h \in Handlers |->
               [pc |-> "idle", batch |-> <<>>, idx |-> 0, team |-> NULL,
                user |-> NULL, lookup_at |-> NoTime, outcomes |-> <<>>,
                raised |-> FALSE]]

LifeIdle ==
    /\ views = <<>>
    /\ requests = {}
    /\ served = [op |-> "none", id |-> 0, actor |-> "null", result |-> "none"]

\* no sendPushNotification call was made: the cache is empty
PushIdle ==
    /\ cachedApnsConfig = NULL
    /\ sends = [c \in 1..MaxSends |->
                  [pc |-> "idle", device |-> [platform |-> "none", sandbox |-> "unset"],
                   host |-> NULL, status |-> 0, responseData |-> "",
                   result |-> [success |-> FALSE, error |-> NULL], resolved |-> 0]]
    /\ secretsSent = 0
    /\ contacted = {}

\* the demo module as loaded: no sequence was started, the list is empty
NoEvent == [op |-> "none", gen |-> 0, invoked |-> {}, refused |-> FALSE]

DemoIdle ==
    /\ sequenceState = [isRunning |-> FALSE, timeouts |-> {}, intervals |-> {},
                        incidentCount |-> 0, teammateAckCount |-> 0]
    /\ timers = <<>>
    /\ elapsed = 0
    /\ demoList = [triggered |-> 0, acked |-> 0, resolved |-> 0]
    /\ generation = 0
    /\ completions = 0
    /\ lastEvent = NoEvent

\* sendPushNotification was not called by the devices handler
NoPush == [kind |-> "none", result |-> [success |-> FALSE, error |-> NULL]]

\* the devices handler has served nothing and DEVICES_TABLE is empty
NoCall ==
    [userId |-> NULL, route |-> "none", parsable |-> TRUE,
     token |-> "", platform |-> "", sandbox |-> "unset",
     storeFailed |-> FALSE, puts |-> <<>>, dispatched |-> <<>>, push |-> NoPush,
     status |-> 0, error |-> ""]

DeviceIdle ==
    /\ devicesTable = {}
    /\ deviceCall = NoCall

\* a localStorage key that has no item; getItem answers null
NoItem == [present |-> FALSE, value |-> <<>>]

\* empty storage: neither item exists
BackendIdle ==
    /\ localStorage = [backends |-> NoItem, active |-> NoItem]
    /\ uuids = 0

\* POST /demo/start was not called
CloudIdle ==
    /\ published = <<>>
    /\ delivered = {}

MoreIdle == DeviceIdle /\ BackendIdle /\ CloudIdle

SpecSeverityInit == SevInit /\ IngestIdle /\ LifeIdle /\ PushIdle /\ DemoIdle /\ MoreIdle
SpecSeverityNext == CallDetermineSeverity /\ UNCHANGED <<ingestVars, lifeVars, pushVars, demoVars, moreVars>>
SpecSeverity == SpecSeverityInit /\ [][SpecSeverityNext]_vars

\* case-insensitive containment, letter by letter
SameLetter(c, k) ==
    \/ c = k
    \/ \E i \in 1..Len(LowerChars) : LowerChars[i] = k /\ UpperChars[i] = c

ContainsCI(s, kw) ==
    \E i \in 0..(Len(s) - Len(kw)) :
        \A j \in 1..Len(kw) : SameLetter(s[i + j], kw[j])

HasCriticalWord(s) == ContainsCI(s, kwCritical) \/ ContainsCI(s, kwError)
HasWarningWord(s) == ContainsCI(s, kwWarning) \/ ContainsCI(s, kwWarn)

\* C4: the severity returned for a name is critical when the name contains
\* "critical" or "error" in any letter case, otherwise warning when it contains
\* "warning" or "warn", otherwise info; it depends on the name alone.
C4_SeverityPrecedence ==
    sevResult # "none" =>
        sevResult = IF HasCriticalWord(sevName) THEN "critical"
                    ELSE IF HasWarningWord(sevName) THEN "warning"
                    ELSE "info"

\* a name with keywords of both classes, not all lower case, was classified
C4_Witness ==
    /\ sevResult = "critical"
    /\ HasCriticalWord(sevName)
    /\ HasWarningWord(sevName)
    /\ toLowerCase(sevName) # sevName

(***************************************************************************)
(* Teams and schedule slots: read-only inputs of the resolvers.  Teams is  *)
(* in the order a Scan of TEAMS_TABLE returns the items, Schedules in the   *)
(* order a Query of SCHEDULES_TABLE returns them.                           *)
(***************************************************************************)
Teams ==
    << [team_id |-> "t1", aws_account_ids |-> {"a1"}],
       [team_id |-> "t2", aws_account_ids |-> {"a1", "a2"}] >>

Schedules ==
    << [team_id |-> "t1", slot_id |-> "s1", user_id |-> "u1", start |-> 0, end |-> 1000],
       [team_id |-> "t1", slot_id |-> "s2", user_id |-> "u2", start |-> 500, end |-> 2000],
       [team_id |-> "t2", slot_id |-> "s3", user_id |-> "u3", start |-> 1000, end |-> 1500] >>

(***************************************************************************)
(* SNS records.  parsable = FALSE is a Message that JSON.parse rejects.    *)
(***************************************************************************)
NameCritical == <<"E", "r", "r", "o", "r", "W", "A", "R", "N">>
NameWarning == <<"W", "a", "r", "n", "i", "n", "g">>
NameInfo == <<"c", "p", "u">>

Message(state, account, name, reason) ==
    [parsable |-> TRUE, NewStateValue |-> state, AWSAccountId |-> account,
     AlarmName |-> name, AlarmArn |-> <<"arn", account, name>>,
     NewStateReason |-> reason]

Unparsable ==
    [parsable |-> FALSE, NewStateValue |-> "", AWSAccountId |-> "",
     AlarmName |-> <<>>, AlarmArn |-> <<>>, NewStateReason |-> ""]

Records ==
    { Unparsable,
      Message("OK", "a1", NameCritical, "reason1"),
      Message("INSUFFICIENT_DATA", "a1", NameCritical, "reason1"),
      Message("ALARM", "a0", NameCritical, "reason1"),
      Message("ALARM", "a1", NameCritical, "reason1"),
      Message("ALARM", "a1", NameWarning, "reason2"),
      Message("ALARM", "a1", NameInfo, "reason1"),
      Message("ALARM", "a2", NameWarning, "reason2") }

RECURSIVE BatchesOf(_)
BatchesOf(n) ==
    IF n = 0 THEN { <<>> }
    ELSE LET shorter == BatchesOf(n - 1) IN
         shorter \cup { Append(b, r) : b \in { x \in shorter : Len(x) = n - 1 }, r \in Records }

Batches == BatchesOf(MaxBatch) \ { <<>> }

(***************************************************************************)
(* Resolvers                                                               *)
(***************************************************************************)
\* Scan with FilterExpression contains(aws_account_ids, :accountId); Items[0] || null.
\* Only team_id of the team is ever used, so the team is returned as its team_id.
findTeamByAwsAccount(accountId) ==
    LET Items == SelectSeq(Teams, LAMBDA t : accountId \in t.aws_account_ids) IN
    IF Len(Items) > 0 THEN Items[1].team_id ELSE NULL

\* a plausible slip: the end of the slot is taken to be inclusive
findOnCallUserClosed(teamId, now) ==
    LET Items == SelectSeq(Schedules,
                     LAMBDA sl : sl.team_id = teamId /\ sl.start <= now /\ sl.end >= now) IN
    IF Len(Items) > 0 THEN Items[1].user_id ELSE NULL

\* a plausible slip: the Query has no key condition, every team's slots are read
findOnCallUserAnyTeam(teamId, now) ==
    LET Items == SelectSeq(Schedules, LAMBDA sl : sl.start <= now /\ sl.end > now) IN
    IF Len(Items) > 0 THEN Items[1].user_id ELSE NULL

\* Query team_id = :tid, FilterExpression #start <= :now AND #end > :now;
\* slot?.user_id || null
findOnCallUser(teamId, now) ==
    LET Items == SelectSeq(Schedules,
                     LAMBDA sl : sl.team_id = teamId /\ sl.start <= now /\ sl.end > now) IN
    IF Len(Items) > 0 THEN Items[1].user_id ELSE NULL

(***************************************************************************)
(* The alarm handler                                                       *)
(***************************************************************************)
\* a plausible slip: only the OK state is ignored
ignoredStateOnlyOK(state) == state = "OK"

\* if (message.NewStateValue !== "ALARM") continue
ignoredState(state) == state # "ALARM"

\* a plausible slip: the first timeline entry carries no note and the level starts at 1
newIncidentBare(id, teamId, message, onCallUserId, now) ==
    [incident_id |-> id,
     team_id |-> teamId,
     alarm_arn |-> message.AlarmArn,
     alarm_name |-> message.AlarmName,
     state |-> "triggered",
     severity |-> determineSeverity(message.AlarmName),
     assigned_to |-> onCallUserId,
     escalation_level |-> 1,
     triggered_at |-> now,
     acked_at |-> NoTime,
     resolved_at |-> NoTime,
     ttl |-> (now \div 1000) + 24 * 60 * 60,
     timeline |-> << [timestamp |-> now, event |-> "triggered",
                      actor |-> "CloudWatch", note |-> ""] >>]

\* a plausible slip: the first timeline entry is stamped in seconds, like ttl
newIncidentSecondsStamp(id, teamId, message, onCallUserId, now) ==
    [incident_id |-> id,
     team_id |-> teamId,
     alarm_arn |-> message.AlarmArn,
     alarm_name |-> message.AlarmName,
     state |-> "triggered",
     severity |-> determineSeverity(message.AlarmName),
     assigned_to |-> onCallUserId,
     escalation_level |-> 0,
     triggered_at |-> now,
     acked_at |-> NoTime,
     resolved_at |-> NoTime,
     ttl |-> (now \div 1000) + 24 * 60 * 60,
     timeline |-> << [timestamp |-> now \div 1000, event |-> "triggered",
                      actor |-> "CloudWatch", note |-> message.NewStateReason] >>]

\* a plausible slip: ttl is computed in milliseconds, like triggered_at
newIncidentTtlMillis(id, teamId, message, onCallUserId, now) ==
    [incident_id |-> id,
     team_id |-> teamId,
     alarm_arn |-> message.AlarmArn,
     alarm_name |-> message.AlarmName,
     state |-> "triggered",
     severity |-> determineSeverity(message.AlarmName),
     assigned_to |-> onCallUserId,
     escalation_level |-> 0,
     triggered_at |-> now,
     acked_at |-> NoTime,
     resolved_at |-> NoTime,
     ttl |-> now + 24 * 60 * 60 * 1000,
     timeline |-> << [timestamp |-> now, event |-> "triggered",
                      actor |-> "CloudWatch", note |-> message.NewStateReason] >>]

\* the Incident item built by the handler; acked_at and resolved_at are not set
newIncident(id, teamId, message, onCallUserId, now) ==
    [incident_id |-> id,
     team_id |-> teamId,
     alarm_arn |-> message.AlarmArn,
     alarm_name |-> message.AlarmName,
     state |-> "triggered",
     severity |-> determineSeverity(message.AlarmName),
     assigned_to |-> onCallUserId,
     escalation_level |-> 0,
     triggered_at |-> now,
     acked_at |-> NoTime,
     resolved_at |-> NoTime,
     ttl |-> (now \div 1000) + 24 * 60 * 60,
     timeline |-> << [timestamp |-> now, event |-> "triggered",
                      actor |-> "CloudWatch", note |-> message.NewStateReason] >>]

\* the record at st.idx is finished (continue, or the end of the loop body):
\* the loop goes to the next record, or the handler returns
Advance(st, kind, at) ==
    LET logged == Append(st.outcomes, [kind |-> kind, at |-> at, lookup_at |-> st.lookup_at])
    IN  [st EXCEPT !.outcomes = logged,
                   !.team = NULL, !.user = NULL, !.lookup_at = NoTime,
                   !.idx = IF st.idx < Len(st.batch) THEN st.idx + 1 ELSE st.idx,
                   !.pc = IF st.idx < Len(st.batch) THEN "team" ELSE "done"]

\* a plausible slip: the loop body has no try/catch, the exception leaves the handler
Uncaught(st, kind, at) ==
    [st EXCEPT !.outcomes = Append(st.outcomes,
                                [kind |-> kind, at |-> at, lookup_at |-> st.lookup_at]),
               !.pc = "done", !.raised = TRUE]

\* catch (error) { console.error(...) } inside the loop body
Caught(st, kind, at) == Advance(st, kind, at)

Invoke(h) ==
    /\ hs[h].pc = "idle"
    /\ \E b \in Batches :
          hs' = [hs EXCEPT ![h] = [@ EXCEPT !.pc = "team", !.batch = b, !.idx = 1]]
    /\ UNCHANGED <<clock, incidents, origin>>

\* JSON.parse, the state filter and findTeamByAwsAccount
StepTeam(h) ==
    LET st == hs[h]
        message == st.batch[st.idx]
    IN  /\ st.pc = "team"
        /\ \/ /\ ~message.parsable
              /\ hs' = [hs EXCEPT ![h] = Caught(st, "parse_error", NoTime)]
           \/ /\ message.parsable
              /\ ignoredState(message.NewStateValue)
              /\ hs' = [hs EXCEPT ![h] = Advance(st, "ignored", NoTime)]
           \/ /\ message.parsable
              /\ ~ignoredState(message.NewStateValue)
              /\ \/ hs' = [hs EXCEPT ![h] = Caught(st, "team_error", NoTime)]
                 \/ LET team == findTeamByAwsAccount(message.AWSAccountId) IN
                    IF team = NULL
                    THEN hs' = [hs EXCEPT ![h] = Advance(st, "no_team", NoTime)]
                    ELSE hs' = [hs EXCEPT ![h] = [st EXCEPT !.pc = "oncall", !.team = team]]
        /\ UNCHANGED <<clock, incidents, origin>>

\* findOnCallUser(team.team_id), with its own Date.now()
StepOnCall(h) ==
    LET st == hs[h]
        looked == [st EXCEPT !.lookup_at = clock]
    IN  /\ st.pc = "oncall"
        /\ \/ hs' = [hs EXCEPT ![h] = Caught(st, "oncall_error", NoTime)]
           \/ LET onCallUserId == findOnCallUser(st.team, clock) IN
              IF onCallUserId = NULL
              THEN hs' = [hs EXCEPT ![h] = Advance(looked, "no_oncall", NoTime)]
              ELSE hs' = [hs EXCEPT ![h] = [looked EXCEPT !.pc = "put", !.user = onCallUserId]]
        /\ UNCHANGED <<clock, incidents, origin>>

\* a plausible slip: the put is conditional, an alarm that already has a
\* triggered incident is not written again
PutCommandOncePerAlarm(table, item) ==
    IF \E k \in 1..Len(table) :
          table[k].alarm_arn = item.alarm_arn /\ table[k].state = "triggered"
    THEN table
    ELSE Append(table, item)

\* PutCommand on INCIDENTS_TABLE, whose key is incident_id: an item with the
\* same key is replaced, any other item is added
PutCommand(table, item) ==
    IF \E k \in 1..Len(table) : table[k].incident_id = item.incident_id
    THEN [k \in 1..Len(table) |->
            IF table[k].incident_id = item.incident_id THEN item ELSE table[k]]
    ELSE Append(table, item)

\* Date.now(), the Incident item and the PutCommand; randomUUID() is a value
\* no stored item has
StepPut(h) ==
    LET st == hs[h]
        message == st.batch[st.idx]
        now == clock
        incident == newIncident(Len(incidents) + 1, st.team, message, st.user, now)
    IN  /\ st.pc = "put"
        /\ \/ /\ hs' = [hs EXCEPT ![h] = Caught(st, "write_error", NoTime)]
              /\ UNCHANGED <<incidents, origin>>
           \/ /\ incidents' = PutCommand(incidents, incident)
              /\ origin' = IF Len(incidents') > Len(incidents)
                           THEN Append(origin, [h |-> h, idx |-> st.idx])
                           ELSE origin
              /\ hs' = [hs EXCEPT ![h] = Advance(st, "created", now)]
        /\ UNCHANGED clock

Tick ==
    /\ clock < 500 * MaxTicks
    /\ clock' = clock + 500
    /\ UNCHANGED <<incidents, origin, hs>>

SevIdle ==
    /\ sevName = <<>>
    /\ sevResult = "none"

Init == IngestIdle /\ SevIdle /\ LifeIdle /\ PushIdle /\ DemoIdle /\ MoreIdle

Next ==
    \/ Tick /\ hs[1].pc # "done" /\ UNCHANGED <<sevVars, lifeVars, pushVars, demoVars, moreVars>>
    \/ Invoke(1) /\ UNCHANGED <<sevVars, lifeVars, pushVars, demoVars, moreVars>>
    \/ StepTeam(1) /\ UNCHANGED <<sevVars, lifeVars, pushVars, demoVars, moreVars>>
    \/ StepOnCall(1) /\ UNCHANGED <<sevVars, lifeVars, pushVars, demoVars, moreVars>>
    \/ StepPut(1) /\ UNCHANGED <<sevVars, lifeVars, pushVars, demoVars, moreVars>>

Spec == Init /\ [][Next]_vars

(***************************************************************************)
(* Properties of the ingestion pipeline                                    *)
(***************************************************************************)

\* the delivered record an outcome or a written item belongs to
RecordAt(h, i) == hs[h].batch[i]
Logged(h) == 1..Len(hs[h].outcomes)
WrittenFor(h, i) == { k \in 1..Len(incidents) : origin[k] = [h |-> h, idx |-> i] }

IsAlarm(message) == message.parsable /\ message.NewStateValue = "ALARM"
ClaimedBy(account) == { i \in 1..Len(Teams) : account \in Teams[i].aws_account_ids }
Covers(slot, t) == slot.start <= t /\ t < slot.end
CoveringSlots(teamId, t) ==
    { i \in 1..Len(Schedules) : Schedules[i].team_id = teamId /\ Covers(Schedules[i], t) }

FailureKinds == {"parse_error", "team_error", "oncall_error", "write_error"}

\* C1: a record whose NewStateValue is not ALARM is ignored: no item of the
\* incident store comes from it, and no exception leaves the handler.
C1_NonAlarmIgnored ==
    /\ \A k \in 1..Len(incidents) :
          RecordAt(origin[k].h, origin[k].idx).NewStateValue = "ALARM"
    /\ \A h \in Handlers : \A i \in Logged(h) :
          (RecordAt(h, i).parsable /\ RecordAt(h, i).NewStateValue # "ALARM")
             => (hs[h].outcomes[i].kind = "ignored" /\ WrittenFor(h, i) = {})
    /\ \A h \in Handlers : ~hs[h].raised

\* an INSUFFICIENT_DATA record was ignored in a batch that also created an incident
C1_Witness ==
    \E h \in Handlers : \E i, j \in Logged(h) :
        /\ RecordAt(h, i).NewStateValue = "INSUFFICIENT_DATA"
        /\ hs[h].outcomes[i].kind = "ignored"
        /\ hs[h].outcomes[j].kind = "created"
        /\ hs[h].pc = "done"

\* what a record yields when it is the only record of its batch, given the
\* faults and the lookup time it met
YieldsAlone(message, o) ==
    IF ~message.parsable THEN o.kind = "parse_error"
    ELSE IF message.NewStateValue # "ALARM" THEN o.kind = "ignored"
    ELSE \/ o.kind = "team_error"
         \/ /\ ClaimedBy(message.AWSAccountId) = {}
            /\ o.kind = "no_team"
         \/ \E i \in ClaimedBy(message.AWSAccountId) :
               /\ \A j \in ClaimedBy(message.AWSAccountId) : i <= j
               /\ \/ o.kind = "oncall_error"
                  \/ /\ o.kind = "no_oncall"
                     /\ CoveringSlots(Teams[i].team_id, o.lookup_at) = {}
                  \/ o.kind = "write_error"
                  \/ /\ o.kind = "created"
                     /\ CoveringSlots(Teams[i].team_id, o.lookup_at) # {}

\* C2: whatever happens to a record, every record of the batch is processed,
\* each with the outcome it has on its own, and the handler returns normally.
C2_BatchIndependent ==
    \A h \in Handlers :
        /\ ~hs[h].raised
        /\ hs[h].pc = "done" => Len(hs[h].outcomes) = Len(hs[h].batch)
        /\ \A i \in Logged(h) : YieldsAlone(RecordAt(h, i), hs[h].outcomes[i])
        /\ \A i \in Logged(h) :
              (hs[h].outcomes[i].kind = "created") = (WrittenFor(h, i) # {})

\* a record failed and the record after it still created its incident
C2_Witness ==
    \E h \in Handlers : \E i \in Logged(h) :
        /\ hs[h].pc = "done"
        /\ hs[h].outcomes[i].kind \in FailureKinds
        /\ i + 1 \in Logged(h)
        /\ hs[h].outcomes[i + 1].kind = "created"
        /\ WrittenFor(h, i + 1) # {}

\* C3: an ALARM record whose account no team claims, or whose team has no slot
\* covering the lookup time, is dropped: the resolver answers null (none of the
\* failure outcomes), nothing is written for it, and the loop goes on.
C3_MissesAreDrops ==
    \A h \in Handlers : \A i \in Logged(h) :
        LET message == RecordAt(h, i)
            o == hs[h].outcomes[i]
            team == IF ClaimedBy(message.AWSAccountId) = {} THEN NULL
                    ELSE Teams[CHOOSE c \in ClaimedBy(message.AWSAccountId) :
                                 \A d \in ClaimedBy(message.AWSAccountId) : c <= d].team_id
        IN  IsAlarm(message) =>
              /\ (team = NULL /\ o.kind # "team_error") => o.kind = "no_team"
              /\ (team # NULL /\ o.lookup_at # NoTime /\ o.kind # "oncall_error"
                    /\ CoveringSlots(team, o.lookup_at) = {}) => o.kind = "no_oncall"
              /\ o.kind \in {"no_team", "no_oncall"} =>
                    /\ WrittenFor(h, i) = {}
                    /\ ~hs[h].raised
                    /\ (hs[h].idx > i \/ hs[h].pc = "done")

\* a record without team and a record without on-call were dropped, the second
\* at the very end of its team's only slot, and a later record was processed
C3_Witness ==
    \E h \in Handlers : \E i, j \in Logged(h) :
        /\ hs[h].outcomes[i].kind = "no_oncall"
        /\ hs[h].outcomes[i].lookup_at = 1500
        /\ RecordAt(h, i).AWSAccountId = "a2"
        /\ hs[h].outcomes[j].kind = "no_team"
        /\ i < j

\* C5: an ALARM record with a team, an on-call user and a successful write
\* leaves exactly one item: triggered, level 0, the first team that claims the
\* account, a user on call for it at the lookup, the severity of the name, no
\* acked_at or resolved_at, and one timeline entry (triggered, CloudWatch, the
\* reason, stamped triggered_at); and a record that met no fault and whose team
\* had a covering slot at the lookup always leaves one.
C5_IncidentCreated ==
    /\ \A h \in Handlers : \A i \in Logged(h) :
        LET message == RecordAt(h, i)
            o == hs[h].outcomes[i]
        IN  o.kind = "created" =>
              /\ Cardinality(WrittenFor(h, i)) = 1
              /\ \A k \in WrittenFor(h, i) :
                    LET inc == incidents[k] IN
                    /\ inc.state = "triggered"
                    /\ inc.escalation_level = 0
                    /\ \E c \in ClaimedBy(message.AWSAccountId) :
                          /\ \A d \in ClaimedBy(message.AWSAccountId) : c <= d
                          /\ inc.team_id = Teams[c].team_id
                    /\ \E sl \in CoveringSlots(inc.team_id, o.lookup_at) :
                          inc.assigned_to = Schedules[sl].user_id
                    /\ inc.severity = IF HasCriticalWord(message.AlarmName) THEN "critical"
                                      ELSE IF HasWarningWord(message.AlarmName) THEN "warning"
                                      ELSE "info"
                    /\ inc.acked_at = NoTime
                    /\ inc.resolved_at = NoTime
                    /\ inc.triggered_at = o.at
                    /\ inc.alarm_name = message.AlarmName
                    /\ Len(inc.timeline) = 1
                    /\ inc.timeline[1] = [timestamp |-> inc.triggered_at, event |-> "triggered",
                                          actor |-> "CloudWatch", note |-> message.NewStateReason]
    /\ \A h \in Handlers : \A i \in Logged(h) :
        LET message == RecordAt(h, i)
            o == hs[h].outcomes[i]
        IN  (/\ IsAlarm(message)
             /\ o.kind \notin FailureKinds
             /\ \E c \in ClaimedBy(message.AWSAccountId) :
                   /\ \A d \in ClaimedBy(message.AWSAccountId) : c <= d
                   /\ CoveringSlots(Teams[c].team_id, o.lookup_at) # {})
            => o.kind = "created"

\* two records of one batch each created their incident, with different reasons
C5_Witness ==
    \E h \in Handlers :
        /\ hs[h].pc = "done"
        /\ Len(hs[h].outcomes) = 2
        /\ hs[h].outcomes[1].kind = "created"
        /\ hs[h].outcomes[2].kind = "created"
        /\ RecordAt(h, 1).NewStateReason # RecordAt(h, 2).NewStateReason
        /\ Len(incidents) = 2

\* the team the handler works with for a record: the first one claiming the account
TeamOf(message) ==
    IF ClaimedBy(message.AWSAccountId) = {} THEN NULL
    ELSE Teams[CHOOSE c \in ClaimedBy(message.AWSAccountId) :
                 \A d \in ClaimedBy(message.AWSAccountId) : c <= d].team_id

\* C24: the pipeline attempts the write at most once per delivered record, and
\* an invocation in which a write failed does not return normally (a normal
\* return tells the transport that the delivery was handled, and ends
\* redelivery).
C24_FailedWriteIsRedelivered ==
    \A h \in Handlers :
        /\ Len(hs[h].outcomes) <= Len(hs[h].batch)
        /\ \A i \in Logged(h) : Cardinality(WrittenFor(h, i)) <= 1
        /\ (hs[h].pc = "done" /\ \E i \in Logged(h) : hs[h].outcomes[i].kind = "write_error")
              => hs[h].raised

\* C25 as stated: ttl and triggered_at are both epoch milliseconds and ttl is
\* triggered_at plus 24 hours.
C25_TtlIsTriggeredAtPlusDay ==
    \A k \in 1..Len(incidents) :
        incidents[k].ttl = incidents[k].triggered_at + 24 * 60 * 60 * 1000

\* C25 amended: ttl is in epoch seconds, the whole second of triggered_at plus
\* 24 hours; read in milliseconds it is at most triggered_at + 24h and less
\* than one second before it.
C25_TtlInWholeSeconds ==
    \A k \in 1..Len(incidents) :
        LET inc == incidents[k] IN
        /\ inc.ttl = (inc.triggered_at \div 1000) + 24 * 60 * 60
        /\ inc.ttl * 1000 <= inc.triggered_at + 24 * 60 * 60 * 1000
        /\ inc.triggered_at + 24 * 60 * 60 * 1000 < (inc.ttl + 1) * 1000

\* an incident created half a second into a second: its ttl read in
\* milliseconds is half a second before triggered_at + 24h
C25_Witness ==
    \E k \in 1..Len(incidents) :
        /\ incidents[k].triggered_at = 1500
        /\ incidents[k].ttl = 1 + 24 * 60 * 60

\* C26: the resolver answers with the user of a slot of the requested team
\* with start <= t < end, t the time of the lookup; it answers not-found
\* exactly when the team has no such slot.
C26_HalfOpenSlotOfTheTeam ==
    \A h \in Handlers :
        /\ hs[h].pc = "put" =>
              \E sl \in 1..Len(Schedules) :
                 /\ Schedules[sl].team_id = hs[h].team
                 /\ Schedules[sl].start <= hs[h].lookup_at
                 /\ hs[h].lookup_at < Schedules[sl].end
                 /\ Schedules[sl].user_id = hs[h].user
        /\ \A i \in Logged(h) :
              LET o == hs[h].outcomes[i]
                  team == TeamOf(RecordAt(h, i))
                  covering == { sl \in 1..Len(Schedules) :
                                  /\ Schedules[sl].team_id = team
                                  /\ Schedules[sl].start <= o.lookup_at
                                  /\ o.lookup_at < Schedules[sl].end }
              IN  /\ o.kind = "no_oncall" => covering = {}
                  /\ o.kind \in {"created", "write_error"} => covering # {}

\* team t2's only slot is [1000, 1500): a lookup at 1000 found its user, a
\* lookup at 1500 found nobody
C26_Witness ==
    \E h \in Handlers : \E i, j \in Logged(h) :
        /\ RecordAt(h, i).AWSAccountId = "a2"
        /\ hs[h].outcomes[i].kind = "created"
        /\ hs[h].outcomes[i].lookup_at = 1000
        /\ \E k \in WrittenFor(h, i) : incidents[k].assigned_to = "u3"
        /\ RecordAt(h, j).AWSAccountId = "a2"
        /\ hs[h].outcomes[j].kind = "no_oncall"
        /\ hs[h].outcomes[j].lookup_at = 1500

\* C29: the assigned responder is on call at the incident's creation time:
\* a slot of the incident's team with user_id = assigned_to covers triggered_at.
C29_AssigneeOnCallAtCreation ==
    \A k \in 1..Len(incidents) :
        \E sl \in CoveringSlots(incidents[k].team_id, incidents[k].triggered_at) :
            Schedules[sl].user_id = incidents[k].assigned_to

(***************************************************************************)
(* Duplicate deliveries: the transport delivers the same ALARM event more  *)
(* than once, inside one batch and to two invocations that run             *)
(* concurrently.  Both teams have a slot covering the time of the run.     *)
(***************************************************************************)
Invocations == {1, 2}

AlarmA == Message("ALARM", "a1", NameCritical, "reason1")
AlarmB == Message("ALARM", "a2", NameWarning, "reason2")

DupBatches == { <<AlarmA>>, <<AlarmA, AlarmA>>, <<AlarmB>> }

DupInit ==
    /\ clock = 1000
    /\ incidents = <<>>
    /\ origin = <<>>
    /\ hs = [h \in Invocations |->
               [pc |-> "idle", batch |-> <<>>, idx |-> 0, team |-> NULL,
                user |-> NULL, lookup_at |-> NoTime, outcomes |-> <<>>,
                raised |-> FALSE]]
    /\ SevIdle /\ LifeIdle /\ PushIdle /\ DemoIdle /\ MoreIdle

\* the transport invokes the handler with a batch of the event
Redeliver(h) ==
    /\ hs[h].pc = "idle"
    /\ \E b \in DupBatches :
          hs' = [hs EXCEPT ![h] = [@ EXCEPT !.pc = "team", !.batch = b, !.idx = 1]]
    /\ UNCHANGED <<clock, incidents, origin>>

DupNext ==
    \/ \E h \in Invocations : Redeliver(h) /\ UNCHANGED <<sevVars, lifeVars, pushVars, demoVars, moreVars>>
    \/ \E h \in Invocations : StepTeam(h) /\ UNCHANGED <<sevVars, lifeVars, pushVars, demoVars, moreVars>>
    \/ \E h \in Invocations : StepOnCall(h) /\ UNCHANGED <<sevVars, lifeVars, pushVars, demoVars, moreVars>>
    \/ \E h \in Invocations : StepPut(h) /\ UNCHANGED <<sevVars, lifeVars, pushVars, demoVars, moreVars>>

SpecDup == DupInit /\ [][DupNext]_vars

\* the deliveries processed so far: (invocation, index in its batch)
Deliveries == { d \in Invocations \X (1..2) : d[2] \in Logged(d[1]) }

\* C27: no deduplication by alarm identity: every delivery of an ALARM event
\* that met no fault creates its own incident, whatever was written before;
\* the incidents of different deliveries are different items with distinct
\* incident_id, each triggered with a one-entry timeline.
C27_DuplicatesCreateIncidents ==
    /\ \A d \in Deliveries :
          LET o == hs[d[1]].outcomes[d[2]] IN
          /\ o.kind \notin FailureKinds => o.kind = "created"
          /\ o.kind = "created" =>
                /\ Cardinality(WrittenFor(d[1], d[2])) = 1
                /\ \A k \in WrittenFor(d[1], d[2]) :
                      /\ incidents[k].alarm_arn = RecordAt(d[1], d[2]).AlarmArn
                      /\ incidents[k].state = "triggered"
                      /\ Len(incidents[k].timeline) = 1
                      /\ incidents[k].timeline[1].event = "triggered"
    /\ \A k, l \in 1..Len(incidents) :
          k # l => incidents[k].incident_id # incidents[l].incident_id
    /\ Len(origin) = Len(incidents)

\* the same event was delivered twice in the batch of invocation 1 and once
\* to invocation 2, which wrote between the two writes of invocation 1:
\* three incidents of the same alarm
C27_Witness ==
    /\ Len(incidents) = 3
    /\ origin = << [h |-> 1, idx |-> 1], [h |-> 2, idx |-> 1], [h |-> 1, idx |-> 2] >>
    /\ \A k \in 1..3 : incidents[k].alarm_arn = AlarmA.AlarmArn
    /\ \A h \in Invocations : hs[h].pc = "done"

(***************************************************************************)
(* The incident state machine of the store (acknowledge, resolve) and its  *)
(* callers: the mobile client, acting on fetched and possibly stale query  *)
(* data, and the demo sequence's teammate and auto-resolve helpers.        *)
(***************************************************************************)
Clients == {"alice", "bob"}
Teammate == "teammate"
System == "CloudWatch"
Ids == 1..Len(incidents)

\* Date.now() of a store call: the clock may have advanced since the last one
Nows == { t \in Times : clock <= t /\ t <= clock + 500 }

TimelineEntry(now, event, actor) ==
    [timestamp |-> now, event |-> event, actor |-> actor, note |-> ""]

\* a plausible slip: the write carries no condition on the stored state
acknowledgeUnconditional(incident, actor, now) ==
    [result |-> "ok",
     incident |-> [incident EXCEPT !.state = "acked", !.acked_at = now,
                       !.timeline = Append(@, TimelineEntry(now, "acked", actor))]]

\* a plausible slip: the transition is written without its timeline entry
acknowledgeNoEntry(incident, actor, now) ==
    IF incident.state = "triggered"
    THEN [result |-> "ok",
          incident |-> [incident EXCEPT !.state = "acked", !.acked_at = now]]
    ELSE [result |-> "conflict", incident |-> incident]

\* a plausible slip: acknowledging an acknowledged incident is accepted again
acknowledgeRepeatable(incident, actor, now) ==
    IF incident.state \in {"triggered", "acked"}
    THEN [result |-> "ok",
          incident |-> [incident EXCEPT !.state = "acked", !.acked_at = now,
                            !.timeline = Append(@, TimelineEntry(now, "acked", actor))]]
    ELSE [result |-> "conflict", incident |-> incident]

\* a plausible slip: a rejected call still stamps the incident
acknowledgeStampsOnConflict(incident, actor, now) ==
    IF incident.state = "triggered"
    THEN [result |-> "ok",
          incident |-> [incident EXCEPT !.state = "acked", !.acked_at = now,
                            !.timeline = Append(@, TimelineEntry(now, "acked", actor))]]
    ELSE [result |-> "conflict", incident |-> [incident EXCEPT !.acked_at = now]]

\* acknowledge(incident_id, actor): a conditional write, expected prior state triggered
acknowledge(incident, actor, now) ==
    IF incident.state = "triggered"
    THEN [result |-> "ok",
          incident |-> [incident EXCEPT !.state = "acked", !.acked_at = now,
                            !.timeline = Append(@, TimelineEntry(now, "acked", actor))]]
    ELSE [result |-> "conflict", incident |-> incident]

\* a plausible slip: the write carries no condition on the stored state
resolveUnconditional(incident, actor, now) ==
    [result |-> "ok",
     incident |-> [incident EXCEPT !.state = "resolved", !.resolved_at = now,
                       !.timeline = Append(@, TimelineEntry(now, "resolved", actor))]]

\* resolve(incident_id, actor): a conditional write, expected prior state
\* triggered or acked
resolve(incident, actor, now) ==
    IF incident.state \in {"triggered", "acked"}
    THEN [result |-> "ok",
          incident |-> [incident EXCEPT !.state = "resolved", !.resolved_at = now,
                            !.timeline = Append(@, TimelineEntry(now, "resolved", actor))]]
    ELSE [result |-> "conflict", incident |-> incident]

\* the last answer before any call was served
NoAnswer == [op |-> "none", id |-> 0, actor |-> NULL, result |-> "none"]

\* incident.state === "triggered" guards the Acknowledge button and the left swipe
canAcknowledge(state) == state = "triggered"

\* incident.state !== "resolved" guards the Resolve button and the right swipe
canResolve(state) == state # "resolved"

\* useQuery fetches the incidents; onSuccess of a mutation invalidates the query
Refresh(c) ==
    /\ views' = [views EXCEPT ![c] = [k \in Ids |-> incidents[k].state]]
    /\ views'[c] # views[c]
    /\ UNCHANGED <<clock, incidents, requests, served>>

\* ackMutation.mutate: incidentsApi.ack(id) is sent
TapAcknowledge(c, k) ==
    /\ canAcknowledge(views[c][k])
    /\ [op |-> "ack", id |-> k, actor |-> c] \notin requests
    /\ requests' = requests \cup { [op |-> "ack", id |-> k, actor |-> c] }
    /\ UNCHANGED <<clock, incidents, views, served>>

\* resolveMutation.mutate: incidentsApi.resolve(id) is sent
TapResolve(c, k) ==
    /\ canResolve(views[c][k])
    /\ [op |-> "resolve", id |-> k, actor |-> c] \notin requests
    /\ requests' = requests \cup { [op |-> "resolve", id |-> k, actor |-> c] }
    /\ UNCHANGED <<clock, incidents, views, served>>

\* the store applies the outcome of a call at its Date.now(), which is the time of
\* the previous call or later, and answers the caller
Answer(r, out) ==
    /\ incidents' = [incidents EXCEPT ![r.id] = out.incident]
    /\ served' = [op |-> r.op, id |-> r.id, actor |-> r.actor, result |-> out.result]

\* the store answers one acknowledge call in flight
ServeAcknowledge ==
    \E r \in requests :
        /\ r.op = "ack"
        /\ requests' = requests \ {r}
        /\ \E now \in Nows :
              /\ clock' = now
              /\ Answer(r, acknowledge(incidents[r.id], r.actor, now))
        /\ UNCHANGED views

\* the store answers one resolve call in flight
ServeResolve ==
    \E r \in requests :
        /\ r.op = "resolve"
        /\ requests' = requests \ {r}
        /\ \E now \in Nows :
              /\ clock' = now
              /\ Answer(r, resolve(incidents[r.id], r.actor, now))
        /\ UNCHANGED views

\* incidents.filter((i) => i.state === s), as list positions
WithState(s) ==
    SelectSeq([k \in 1..Len(incidents) |-> k], LAMBDA k : incidents[k].state = s)

\* triggered[Math.floor(Math.random() * Math.min(3, triggered.length))]
teammateChoices ==
    LET triggered == WithState("triggered")
        n == IF Len(triggered) < 3 THEN Len(triggered) ELSE 3
    IN  { triggered[i] : i \in 1..n }

\* acked.reduce((a, b) => (a.acked_at || 0) < (b.acked_at || 0) ? a : b)
RECURSIVE oldestFrom(_, _, _)
oldestFrom(acked, a, i) ==
    IF i > Len(acked) THEN a
    ELSE LET b == acked[i]
             ta == IF incidents[a].acked_at = NoTime THEN 0 ELSE incidents[a].acked_at
             tb == IF incidents[b].acked_at = NoTime THEN 0 ELSE incidents[b].acked_at
         IN  oldestFrom(acked, IF ta < tb THEN a ELSE b, i + 1)

\* teammateAck: a teammate acknowledges one of the first triggered incidents
TeammateAck ==
    /\ \E k \in teammateChoices : \E now \in Nows :
          /\ clock' = now
          /\ Answer([op |-> "ack", id |-> k, actor |-> Teammate],
                    acknowledge(incidents[k], Teammate, now))
    /\ UNCHANGED <<views, requests>>

\* autoResolve: the oldest acknowledged incident is resolved
AutoResolve ==
    /\ Len(WithState("acked")) > 0
    /\ LET acked == WithState("acked")
           k == oldestFrom(acked, acked[1], 2)
       IN  \E now \in Nows :
              /\ clock' = now
              /\ Answer([op |-> "resolve", id |-> k, actor |-> System],
                        resolve(incidents[k], System, now))
    /\ UNCHANGED <<views, requests>>

\* the store after the handler created, at 500, an incident for one alarm; every
\* client has fetched it, nothing is in flight
LifecycleInit ==
    /\ clock = 500
    /\ incidents =
          << newIncident(1, "t1", Message("ALARM", "a1", NameCritical, "reason1"), "u2", 500) >>
    /\ origin = << [h |-> 1, idx |-> 1] >>
    /\ hs = [h \in Handlers |->
               [pc |-> "idle", batch |-> <<>>, idx |-> 0, team |-> NULL,
                user |-> NULL, lookup_at |-> NoTime, outcomes |-> <<>>,
                raised |-> FALSE]]
    /\ views = [c \in Clients |-> [k \in Ids |-> "triggered"]]
    /\ requests = {}
    /\ served = NoAnswer
    /\ SevIdle
    /\ PushIdle
    /\ DemoIdle
    /\ MoreIdle

LifecycleNext ==
    \/ \E c \in Clients : Refresh(c) /\ UNCHANGED <<origin, hs, sevVars, pushVars, demoVars, moreVars>>
    \/ \E c \in Clients, k \in Ids : TapAcknowledge(c, k) /\ UNCHANGED <<origin, hs, sevVars, pushVars, demoVars, moreVars>>
    \/ \E c \in Clients, k \in Ids : TapResolve(c, k) /\ UNCHANGED <<origin, hs, sevVars, pushVars, demoVars, moreVars>>
    \/ ServeAcknowledge /\ UNCHANGED <<origin, hs, sevVars, pushVars, demoVars, moreVars>>
    \/ ServeResolve /\ UNCHANGED <<origin, hs, sevVars, pushVars, demoVars, moreVars>>
    \/ TeammateAck /\ UNCHANGED <<origin, hs, sevVars, pushVars, demoVars, moreVars>>
    \/ AutoResolve /\ UNCHANGED <<origin, hs, sevVars, pushVars, demoVars, moreVars>>

SpecLifecycle == LifecycleInit /\ [][LifecycleNext]_vars

(***************************************************************************)
(* Properties of the incident lifecycle                                    *)
(***************************************************************************)
EventsOf(incident) == [i \in 1..Len(incident.timeline) |-> incident.timeline[i].event]
CountEvent(incident, e) ==
    Cardinality({ i \in 1..Len(incident.timeline) : incident.timeline[i].event = e })

\* this step answers an acknowledge or resolve call (served' is its answer)
IsAnswer ==
    \/ requests' # requests /\ requests' \subseteq requests
    \/ incidents' # incidents

ForwardMoves ==
    { <<"triggered", "acked">>, <<"acked", "resolved">>, <<"triggered", "resolved">> }

\* C6: the state of an incident changes only triggered -> acked, acked -> resolved
\* or triggered -> resolved; it never moves back, so each move happens at most once.
C6_ForwardOnly ==
    [][ \A k \in 1..Len(incidents) :
          incidents'[k].state # incidents[k].state
             => <<incidents[k].state, incidents'[k].state>> \in ForwardMoves ]_vars

\* the incident was resolved straight from triggered, and an acknowledge that
\* arrived afterwards did not move it back
C6_Witness ==
    /\ incidents[1].state = "resolved"
    /\ incidents[1].acked_at = NoTime
    /\ served.op = "ack"
    /\ served.result = "conflict"

\* C7: a call that finds an unexpected prior state (acknowledge on an acked or
\* resolved incident, resolve on a resolved one) is answered with a conflict and
\* the stored incident is exactly what it was; only such calls are rejected.
C7_ConflictLeavesUnchanged ==
    [][ IsAnswer =>
          LET before == incidents[served'.id]
              unexpected == \/ served'.op = "ack" /\ before.state # "triggered"
                            \/ served'.op = "resolve" /\ before.state = "resolved"
          IN  /\ unexpected => (served'.result = "conflict" /\ incidents' = incidents)
              /\ served'.result = "conflict" => (unexpected /\ incidents' = incidents) ]_vars

\* an acknowledge by bob was rejected on an incident that alice had acknowledged
\* and that was resolved since
C7_Witness ==
    /\ incidents[1].state = "resolved"
    /\ incidents[1].acked_at # NoTime
    /\ incidents[1].timeline[2].actor = "alice"
    /\ served = [op |-> "ack", id |-> 1, actor |-> "bob", result |-> "conflict"]

\* C8: however often acknowledge is invoked, the incident has at most one "acked"
\* timeline entry, acked_at is set exactly when that entry exists and carries its
\* timestamp, and once set acked_at keeps the value of the first acknowledge.
C8_AckIdempotent ==
    /\ [](\A k \in 1..Len(incidents) :
            /\ CountEvent(incidents[k], "acked") <= 1
            /\ (incidents[k].acked_at # NoTime) = (CountEvent(incidents[k], "acked") = 1)
            /\ \A i \in 1..Len(incidents[k].timeline) :
                  incidents[k].timeline[i].event = "acked"
                     => incidents[k].timeline[i].timestamp = incidents[k].acked_at)
    /\ [][ \A k \in 1..Len(incidents) :
             incidents[k].acked_at # NoTime
                => incidents'[k].acked_at = incidents[k].acked_at ]_vars

\* alice's acknowledge took effect, and a later acknowledge by bob, at a later
\* time, was answered without touching acked_at
C8_Witness ==
    /\ incidents[1].state = "acked"
    /\ incidents[1].timeline[2].actor = "alice"
    /\ served = [op |-> "ack", id |-> 1, actor |-> "bob", result |-> "conflict"]
    /\ clock > incidents[1].acked_at

NonDecreasing(timeline) ==
    \A i \in 1..(Len(timeline) - 1) : timeline[i].timestamp <= timeline[i + 1].timestamp

C10_Linearizable ==
    [][ IsAnswer =>
          LET a == served'
              before == incidents[a.id]
              after == incidents'[a.id]
              entry == [timestamp |-> clock', event |-> IF a.op = "ack" THEN "acked"
                                                       ELSE "resolved",
                        actor |-> a.actor, note |-> ""]
          IN  /\ \A k \in 1..Len(incidents) : k # a.id => incidents'[k] = incidents[k]
              /\ a.result # "ok" => after = before
              /\ a.result = "ok" =>
                    /\ after.timeline = Append(before.timeline, entry)
                    /\ a.op = "ack" =>
                          /\ before.state = "triggered"
                          /\ after = [before EXCEPT !.state = "acked", !.acked_at = clock',
                                                    !.timeline = after.timeline]
                    /\ a.op = "resolve" =>
                          /\ before.state \in {"triggered", "acked"}
                          /\ after = [before EXCEPT !.state = "resolved",
                                                    !.resolved_at = clock',
                                                    !.timeline = after.timeline] ]_vars

\* both clients had an acknowledge in flight at once; one was accepted, the other
\* was answered with a conflict while a resolve was still in flight
C10_Witness ==
    /\ incidents[1].state = "acked"
    /\ incidents[1].timeline[2].actor = "bob"
    /\ served = [op |-> "ack", id |-> 1, actor |-> "alice", result |-> "conflict"]
    /\ \E r \in requests : r.op = "resolve"

(***************************************************************************)
(* The push dispatcher: sendPushNotification and the credential cache of   *)
(* getApnsConfig.  A call is split at its awaits and at the events of the  *)
(* HTTP/2 session; the secrets service and the gateway are the environment.*)
(* A result is a record with success and error; {success: true} carries    *)
(* error = NULL.  resolved counts the results handed to the caller.        *)
(***************************************************************************)
Sends == 1..MaxSends

HostSandbox == "api.sandbox.push.apple.com"
HostProduction == "api.push.apple.com"

\* Device.platform and Device.sandbox; sandbox is optional
Devices ==
    { [platform |-> "ios", sandbox |-> sb] : sb \in {"true", "false", "unset"} }
        \cup { [platform |-> "android", sandbox |-> "true"],
               [platform |-> "web", sandbox |-> "unset"] }

\* what secretsClient.send can answer: it throws, it has no SecretString, the
\* SecretString is not JSON, or it is the JSON of a credential set
Credentials == {"credsA", "credsB"}
SecretAnswers == {"throws", "no_string", "not_json"} \cup Credentials

\* response bodies of the gateway
BodyReason == "{\"reason\":\"BadDeviceToken\"}"
BodyNoReason == "{}"
BodyNotJson == "<html>"
Bodies == {BodyReason, BodyNoReason, BodyNotJson}
Statuses == {200, 410}
ErrorMessages == {"ECONNRESET"}

\* JSON.parse of a response body: ok = FALSE when it throws
JSONparse(text) ==
    IF text = BodyReason THEN [ok |-> TRUE, reason |-> "BadDeviceToken"]
    ELSE IF text = BodyNoReason THEN [ok |-> TRUE, reason |-> NULL]
    ELSE [ok |-> FALSE, reason |-> NULL]

Success == [success |-> TRUE, error |-> NULL]
Failure(message) == [success |-> FALSE, error |-> message]

\* resolve of the returned promise (or the return of the async function): a
\* promise settles once, a later resolve has no effect
resolvePromise(st, value) ==
    IF st.resolved = 0
    THEN [st EXCEPT !.result = value, !.resolved = 1]
    ELSE st

\* a plausible slip: every device is taken to be deliverable
deliverableAny(device) == TRUE

\* device.platform !== "ios" returns early
deliverable(device) == device.platform = "ios"

\* a plausible slip: only an explicit false selects production
apnsHostUnlessFalse(device) ==
    IF device.sandbox # "false" THEN HostSandbox ELSE HostProduction

\* device.sandbox ? "api.sandbox.push.apple.com" : "api.push.apple.com"
apnsHost(device) ==
    IF device.sandbox = "true" THEN HostSandbox ELSE HostProduction

\* req.on("end"): the error reported for a non-empty body
endError(responseData) ==
    LET parsed == JSONparse(responseData) IN
    IF parsed.ok
    THEN IF parsed.reason # NULL THEN parsed.reason ELSE "Unknown error"
    ELSE responseData

\* sendPushNotification up to the first await: the platform check, then
\* getApnsConfig up to secretsClient.send
Send(c) ==
    /\ sends[c].pc = "idle"
    /\ c > 1 => sends[c - 1].pc # "idle"
    /\ \E device \in Devices :
          LET st == [sends[c] EXCEPT !.device = device] IN
          IF ~deliverable(device)
          THEN /\ sends' = [sends EXCEPT ![c] =
                              [resolvePromise(st, Failure("Non-iOS device")) EXCEPT !.pc = "returned"]]
               /\ UNCHANGED <<cachedApnsConfig, secretsSent, contacted>>
          ELSE IF cachedApnsConfig # NULL
          THEN /\ sends' = [sends EXCEPT ![c] =
                              [st EXCEPT !.pc = "configured"]]
               /\ UNCHANGED <<cachedApnsConfig, secretsSent, contacted>>
          ELSE /\ sends' = [sends EXCEPT ![c] = [st EXCEPT !.pc = "secret"]]
               /\ secretsSent' = secretsSent + 1
               /\ UNCHANGED <<cachedApnsConfig, contacted>>

\* the rest of getApnsConfig, and the !config check of its caller
SecretAnswer(c) ==
    /\ sends[c].pc = "secret"
    /\ \E answer \in SecretAnswers :
          IF answer \in Credentials
          THEN /\ cachedApnsConfig' = answer
               /\ sends' = [sends EXCEPT ![c] =
                              [@ EXCEPT !.pc = "configured"]]
          ELSE /\ sends' = [sends EXCEPT ![c] =
                              [resolvePromise(@, Failure("APNs not configured")) EXCEPT !.pc = "returned"]]
               /\ UNCHANGED cachedApnsConfig
    /\ UNCHANGED <<secretsSent, contacted>>

\* http2.connect, client.request, req.write, req.end
Connect(c) ==
    /\ sends[c].pc = "configured"
    /\ LET host == apnsHost(sends[c].device) IN
       /\ sends' = [sends EXCEPT ![c] = [@ EXCEPT !.pc = "open", !.host = host]]
       /\ contacted' = contacted \cup { [call |-> c, host |-> host] }
    /\ UNCHANGED <<cachedApnsConfig, secretsSent>>

\* req.on("response")
Response(c) ==
    /\ sends[c].pc = "open"
    /\ \E status \in Statuses :
          LET st == [sends[c] EXCEPT !.pc = "headers", !.status = status] IN
          sends' = [sends EXCEPT ![c] = IF status = 200 THEN resolvePromise(st, Success) ELSE st]
    /\ UNCHANGED <<cachedApnsConfig, secretsSent, contacted>>

\* req.on("data")
Data(c) ==
    /\ sends[c].pc = "headers"
    /\ sends[c].responseData = ""
    /\ \E chunk \in Bodies :
          sends' = [sends EXCEPT ![c] = [@ EXCEPT !.responseData = chunk]]
    /\ UNCHANGED <<cachedApnsConfig, secretsSent, contacted>>

\* the variables of the promise executor (status, responseData) end with the
\* exchange
closed(st, pc) == [st EXCEPT !.pc = pc, !.status = 0, !.responseData = ""]

\* req.on("end")
End(c) ==
    /\ sends[c].pc = "headers"
    /\ LET st == sends[c] IN
       sends' = [sends EXCEPT ![c] =
                    IF st.responseData # ""
                    THEN closed(resolvePromise(st, Failure(endError(st.responseData))), "ended")
                    ELSE closed(st, "ended")]
    /\ UNCHANGED <<cachedApnsConfig, secretsSent, contacted>>

\* client.on("error")
ClientError(c) ==
    /\ sends[c].pc \in {"open", "headers"}
    /\ \E message \in ErrorMessages :
          sends' = [sends EXCEPT ![c] =
                       closed(resolvePromise(@, Failure(message)), "client_error")]
    /\ UNCHANGED <<cachedApnsConfig, secretsSent, contacted>>

\* req.on("error"), also after the session's own error
ReqError(c) ==
    /\ sends[c].pc \in {"open", "headers", "client_error"}
    /\ \E message \in ErrorMessages :
          sends' = [sends EXCEPT ![c] =
                       closed(resolvePromise(@, Failure(message)), "req_error")]
    /\ UNCHANGED <<cachedApnsConfig, secretsSent, contacted>>

\* the gateway accepted the connection and will never answer on it
Silent(c) ==
    /\ sends[c].pc = "open"
    /\ sends' = [sends EXCEPT ![c] = [@ EXCEPT !.pc = "silent"]]
    /\ UNCHANGED <<cachedApnsConfig, secretsSent, contacted>>

PushInit == PushIdle /\ IngestIdle /\ SevIdle /\ LifeIdle /\ DemoIdle /\ MoreIdle

PushNext ==
    \/ \E c \in Sends : Send(c) /\ UNCHANGED <<ingestVars, sevVars, lifeVars, demoVars, moreVars>>
    \/ \E c \in Sends : SecretAnswer(c) /\ UNCHANGED <<ingestVars, sevVars, lifeVars, demoVars, moreVars>>
    \/ \E c \in Sends : Connect(c) /\ UNCHANGED <<ingestVars, sevVars, lifeVars, demoVars, moreVars>>
    \/ \E c \in Sends : Response(c) /\ UNCHANGED <<ingestVars, sevVars, lifeVars, demoVars, moreVars>>
    \/ \E c \in Sends : Data(c) /\ UNCHANGED <<ingestVars, sevVars, lifeVars, demoVars, moreVars>>
    \/ \E c \in Sends : End(c) /\ UNCHANGED <<ingestVars, sevVars, lifeVars, demoVars, moreVars>>
    \/ \E c \in Sends : ClientError(c) /\ UNCHANGED <<ingestVars, sevVars, lifeVars, demoVars, moreVars>>
    \/ \E c \in Sends : ReqError(c) /\ UNCHANGED <<ingestVars, sevVars, lifeVars, demoVars, moreVars>>
    \/ \E c \in Sends : Silent(c) /\ UNCHANGED <<ingestVars, sevVars, lifeVars, demoVars, moreVars>>

SpecPush == PushInit /\ [][PushNext]_vars

(***************************************************************************)
(* Properties of the push dispatcher                                       *)
(***************************************************************************)
Contacted(c) == { e \in contacted : e.call = c }
Started(c) == sends[c].pc # "idle"
InExchange(c) == sends[c].pc \in {"open", "headers", "ended", "client_error", "req_error", "silent"}
IosStarted == { c \in Sends : Started(c) /\ sends[c].device.platform = "ios" }

\* C11: a call for a device that is not ios returns "Non-iOS device" with no
\* credential request and no connection; a connection exists only for an ios
\* device and with credentials in hand; an ios call whose credential request
\* gave no credentials returns "APNs not configured" with no connection.
C11_OnlyIosWithCredentials ==
    /\ \A c \in Sends :
          (Started(c) /\ sends[c].device.platform # "ios") =>
             /\ sends[c].pc = "returned"
             /\ sends[c].resolved = 1
             /\ sends[c].result = [success |-> FALSE, error |-> "Non-iOS device"]
             /\ Contacted(c) = {}
    /\ secretsSent <= Cardinality(IosStarted)
    /\ \A c \in Sends :
          (Contacted(c) # {} \/ InExchange(c)) =>
             /\ sends[c].device.platform = "ios"
             /\ cachedApnsConfig \in Credentials
    /\ \A c \in Sends :
          (sends[c].pc = "returned" /\ sends[c].device.platform = "ios") =>
             /\ sends[c].resolved = 1
             /\ sends[c].result = [success |-> FALSE, error |-> "APNs not configured"]
             /\ Contacted(c) = {}

\* an android call and an ios call without credentials both returned, and no
\* connection was made
C11_Witness ==
    /\ sends[1].device.platform = "android"
    /\ sends[1].result.error = "Non-iOS device"
    /\ sends[2].device.platform = "ios"
    /\ sends[2].result.error = "APNs not configured"
    /\ secretsSent = 1
    /\ contacted = {}

\* C12: when the response stream ends, the caller has its result: success for
\* status 200, otherwise a failure whose error is the reason of the body, or
\* the body itself when it is not JSON (an empty body included); an error of
\* the session or the request on a call without result gives a failure with
\* the error's message; a result once delivered is never replaced.
C12_ResultFromResponse ==
    [][\A c \in Sends :
          LET st == sends[c]
              after == sends'[c]
          IN  /\ (st.pc = "headers" /\ after.pc = "ended") =>
                    /\ after.resolved = 1
                    /\ st.status = 200 => after.result = [success |-> TRUE, error |-> NULL]
                    /\ st.status # 200 =>
                          /\ after.result.success = FALSE
                          /\ st.responseData = BodyReason =>
                                after.result.error = "BadDeviceToken"
                          /\ st.responseData \in {BodyNotJson, ""} =>
                                after.result.error = st.responseData
              /\ (st.resolved = 0 /\ after.pc \in {"client_error", "req_error"}
                    /\ st.pc # after.pc) =>
                    /\ after.resolved = 1
                    /\ after.result.success = FALSE
                    /\ after.result.error \in ErrorMessages
              /\ st.resolved = 1 => (after.resolved = 1 /\ after.result = st.result)
    ]_vars

\* C13: a call that can make no further step has returned its result: neither
\* a response that ended nor a gateway that stays silent leaves it pending.
C13_EveryCallReturns ==
    \A c \in Sends :
        (Started(c) /\ sends[c].resolved = 0) =>
            ENABLED (SecretAnswer(c) \/ Connect(c) \/ Response(c) \/ Data(c) \/ End(c)
                        \/ ClientError(c) \/ ReqError(c))

\* C14: a device with sandbox = true is contacted on the sandbox host only, a
\* device with sandbox false or unset on the production host only, and a
\* call contacts one host.
C14_EndpointBySandboxFlag ==
    \A c \in Sends :
        /\ Cardinality(Contacted(c)) <= 1
        /\ \A e \in Contacted(c) :
              /\ sends[c].device.sandbox = "true" => e.host = "api.sandbox.push.apple.com"
              /\ sends[c].device.sandbox \in {"false", "unset"} => e.host = "api.push.apple.com"
              /\ e.host = sends[c].host

\* one process contacted the production host for a device without the flag and
\* then the sandbox host for a sandbox device
C14_Witness ==
    /\ sends[1].device.sandbox = "unset"
    /\ [call |-> 1, host |-> HostProduction] \in contacted
    /\ sends[1].pc = "ended"
    /\ sends[2].device.sandbox = "true"
    /\ [call |-> 2, host |-> HostSandbox] \in contacted

\* C15: no credential request before the first ios call; once the cache holds
\* credentials it keeps them unchanged and no further request is sent.
C15_CacheNeverRefreshed ==
    /\ [](IosStarted = {} => (secretsSent = 0 /\ cachedApnsConfig = NULL))
    /\ [][cachedApnsConfig # NULL =>
             (cachedApnsConfig' = cachedApnsConfig /\ secretsSent' = secretsSent)]_vars

(***************************************************************************)
(* The demo sequence orchestrator.  Timers are those of the page: a timer  *)
(* fires when no pending timer is due earlier, timers due together fire in  *)
(* creation order, and every callback runs to completion.  The incident    *)
(* list belongs to the host (getIncidents, addIncident, ackIncident,        *)
(* resolveIncident); the orchestrator reads its length and the number of    *)
(* triggered and acked incidents, so the list is kept as these numbers.     *)
(* elapsed restarts at 0 with each effective start: only differences of     *)
(* times are observable.                                                    *)
(***************************************************************************)
IncidentCeiling == 10
WinIncidentCount == 8
GameLoopMs == 3500
TimeoutMs == 60000
AlertDelayMs == 50

\* the scheduleAction calls of startDemoSequence before the game loop, in order
Script ==
    << [delay |-> 1500, action |-> "addAndTrack"],
       [delay |-> 2500, action |-> "addAndTrack"],
       [delay |-> 3500, action |-> "addAndTrack"],
       [delay |-> 4500, action |-> "addAndTrack"],
       [delay |-> 5500, action |-> "addAndTrack"],
       [delay |-> 7000, action |-> "teammateAck"],
       [delay |-> 9000, action |-> "teammateAck"],
       [delay |-> 11000, action |-> "addAndTrack"],
       [delay |-> 12000, action |-> "autoResolve"],
       [delay |-> 14000, action |-> "addAndTrack"],
       [delay |-> 15000, action |-> "teammateAck"],
       [delay |-> 16000, action |-> "autoResolve"] >>

\* Math.random() in tenths: one value for each interval that the thresholds
\* 0.4, 0.5, 0.6 and 0.7 of the game loop cut
Rolls == {3, 4, 5, 6, 7}

Length(list) == list.triggered + list.acked + list.resolved

\* the orchestrator's view while a callback runs: SequenceState, the timers,
\* the host's list, and what the callback did so far
Running(d) == d.st.isRunning

\* a plausible slip: the ceiling is compared with > instead of >=
atCeilingStrict(length) == length > IncidentCeiling

\* getIncidents().length >= 10
atCeiling(length) == length >= IncidentCeiling

\* a plausible slip: the guard of startDemoSequence is missing
alreadyRunningNever(st) == FALSE

\* if (sequenceState.isRunning) return
alreadyRunning(st) == st.isRunning

\* addAndTrack: the incident is added first, the alert is played by a timer
\* of its own 50 ms later
addAndTrack(d, gen, now) ==
    IF ~Running(d) THEN d
    ELSE IF atCeiling(Length(d.list)) THEN [d EXCEPT !.refused = TRUE]
    ELSE [d EXCEPT !.st.incidentCount = @ + 1,
                   !.list.triggered = @ + 1,
                   !.invoked = @ \cup {"addIncident"},
                   !.timers = Append(@, [kind |-> "alert", index |-> 0,
                                         due |-> now + AlertDelayMs, gen |-> gen])]

\* teammateAck: one of the first three triggered incidents is acknowledged
teammateAck(d) ==
    IF ~Running(d) THEN d
    ELSE IF d.list.triggered = 0 THEN d
    ELSE [d EXCEPT !.list.triggered = @ - 1,
                   !.list.acked = @ + 1,
                   !.invoked = @ \cup {"ackIncident"},
                   !.st.teammateAckCount = @ + 1]

\* autoResolve: the oldest acked incident is resolved
autoResolve(d) ==
    IF ~Running(d) THEN d
    ELSE IF d.list.acked = 0 THEN d
    ELSE [d EXCEPT !.list.acked = @ - 1,
                   !.list.resolved = @ + 1,
                   !.invoked = @ \cup {"resolveIncident"}]

\* a plausible slip: only the triggered incidents are counted as outstanding
checkWinConditionTriggeredOnly(d) ==
    /\ d.st.incidentCount >= WinIncidentCount
    /\ d.list.triggered = 0

checkWinCondition(d) ==
    /\ d.st.incidentCount >= WinIncidentCount
    /\ d.list.triggered = 0
    /\ d.list.acked = 0

Tracked(st, timer) ==
    \/ [kind |-> timer.kind, index |-> timer.index] \in st.timeouts
    \/ [kind |-> timer.kind, index |-> timer.index] \in st.intervals

\* clearTimeout / clearInterval of every handle kept in SequenceState
clearAllTimers(d) ==
    [d EXCEPT !.timers = SelectSeq(@, LAMBDA timer : ~Tracked(d.st, timer)),
              !.st.timeouts = {},
              !.st.intervals = {}]

stopDemoSequence(d) == clearAllTimers([d EXCEPT !.st.isRunning = FALSE])

\* scheduleAction: setTimeout, and the handle is pushed to timeouts
scheduleAction(d, kind, index, delayMs, gen, now) ==
    [d EXCEPT !.timers = Append(@, [kind |-> kind, index |-> index,
                                    due |-> now + delayMs, gen |-> gen]),
              !.st.timeouts = @ \cup { [kind |-> kind, index |-> index] }]

RECURSIVE scheduleScript(_, _, _, _)
scheduleScript(d, i, gen, now) ==
    IF i > Len(Script) THEN d
    ELSE scheduleScript(scheduleAction(d, "script", i, Script[i].delay, gen, now),
                        i + 1, gen, now)

\* the body of startDemoSequence after the guard
startBody(d, gen, now) ==
    LET reset == [d EXCEPT !.st.isRunning = TRUE,
                           !.st.incidentCount = 0,
                           !.st.teammateAckCount = 0]
        first == addAndTrack(reset, gen, now)
        scripted == scheduleScript(first, 1, gen, now)
        looping == [scripted EXCEPT
                       !.timers = Append(@, [kind |-> "loop", index |-> 0,
                                             due |-> now + GameLoopMs, gen |-> gen]),
                       !.st.intervals = @ \cup { [kind |-> "loop", index |-> 0] }]
    IN  scheduleAction(looping, "timeout", 0, TimeoutMs, gen, now)

\* the callback of the game loop interval
gameLoop(d, gen, now, roll, oldEnough) ==
    IF ~Running(d)
    THEN [d EXCEPT !.timers = SelectSeq(@, LAMBDA timer : timer.kind # "loop")]
    ELSE IF checkWinCondition(d)
    THEN [stopDemoSequence(d) EXCEPT !.invoked = @ \cup {"onComplete"}]
    ELSE IF Length(d.list) < 6 /\ roll < 4
    THEN addAndTrack(d, gen, now)
    ELSE IF d.list.triggered > 3 /\ roll < 5 /\ d.st.teammateAckCount < 5
    THEN teammateAck(d)
    ELSE IF d.list.acked > 0 /\ roll < 6
    THEN IF oldEnough THEN autoResolve(d) ELSE d
    ELSE IF d.list.triggered < 2 /\ Length(d.list) < 8 /\ roll < 7
    THEN addAndTrack(d, gen, now)
    ELSE d

\* a plausible slip: the guard of the timeout callback is inverted
timeUpWhenStopped(d) ==
    IF Running(d) THEN d
    ELSE [stopDemoSequence(d) EXCEPT !.invoked = @ \cup {"onComplete"}]

\* the callback scheduled for 60000 ms
timeUp(d) ==
    IF ~Running(d) THEN d
    ELSE [stopDemoSequence(d) EXCEPT !.invoked = @ \cup {"onComplete"}]

\* the callback of the 50 ms timer of addAndTrack
alertDue(d) ==
    IF Running(d) THEN [d EXCEPT !.invoked = @ \cup {"playAlert"}] ELSE d

Before == [st |-> sequenceState, timers |-> timers, list |-> demoList,
           invoked |-> {}, refused |-> FALSE]

\* the state after an operation that left the orchestrator in d
Becomes(d, op, gen) ==
    /\ sequenceState' = d.st
    /\ timers' = d.timers
    /\ demoList' = d.list
    /\ lastEvent' = [op |-> op, gen |-> gen, invoked |-> d.invoked, refused |-> d.refused]

Rebased(pending, by) ==
    [i \in 1..Len(pending) |-> [pending[i] EXCEPT !.due = @ - by]]

\* startDemoSequence(callbacks)
StartDemoSequence ==
    /\ generation < MaxStarts \/ sequenceState.isRunning
    /\ IF alreadyRunning(sequenceState)
       THEN /\ Becomes(Before, "start_ignored", generation + 1)
            /\ UNCHANGED <<elapsed, generation, completions>>
       ELSE /\ Becomes(startBody([Before EXCEPT !.timers = Rebased(@, elapsed)],
                                 generation + 1, 0),
                       "start", generation + 1)
            /\ elapsed' = 0
            /\ generation' = generation + 1
            /\ completions' = 0

\* stopDemoSequence(), called by the host
StopDemoSequence ==
    /\ sequenceState.isRunning
    /\ Becomes(stopDemoSequence(Before), "stop", generation)
    /\ UNCHANGED <<elapsed, generation, completions>>

NextDue(i) ==
    \A j \in 1..Len(timers) :
        \/ timers[j].due > timers[i].due
        \/ timers[j].due = timers[i].due /\ j >= i

Without(pending, i) == SubSeq(pending, 1, i - 1) \o SubSeq(pending, i + 1, Len(pending))

\* the next timer fires and its callback runs to completion
Fire(i) ==
    LET timer == timers[i]
        now == timer.due
        rest == Without(timers, i)
        rearmed == IF timer.kind = "loop"
                   THEN Append(rest, [timer EXCEPT !.due = now + GameLoopMs])
                   ELSE rest
        d == [Before EXCEPT !.timers = rearmed]
    IN  /\ NextDue(i)
        /\ elapsed' = now
        /\ UNCHANGED generation
        /\ \E roll \in (IF timer.kind = "loop" THEN Rolls ELSE {0}),
              oldEnough \in (IF timer.kind = "loop" THEN BOOLEAN ELSE {FALSE}) :
              LET after ==
                    IF timer.kind = "alert" THEN alertDue(d)
                    ELSE IF timer.kind = "timeout" THEN timeUp(d)
                    ELSE IF timer.kind = "loop"
                    THEN gameLoop(d, timer.gen, now, roll, oldEnough)
                    ELSE IF Script[timer.index].action = "addAndTrack"
                    THEN addAndTrack(d, timer.gen, now)
                    ELSE IF Script[timer.index].action = "teammateAck"
                    THEN teammateAck(d)
                    ELSE autoResolve(d)
              IN  /\ Becomes(after, timer.kind, timer.gen)
                  /\ completions' = IF "onComplete" \in after.invoked
                                    THEN completions + 1 ELSE completions

\* the responder acknowledges or resolves an incident of the list
Respond ==
    /\ \/ /\ demoList.triggered > 0
          /\ demoList' = [demoList EXCEPT !.triggered = @ - 1, !.acked = @ + 1]
       \/ /\ demoList.triggered > 0
          /\ demoList' = [demoList EXCEPT !.triggered = @ - 1, !.resolved = @ + 1]
       \/ /\ demoList.acked > 0
          /\ demoList' = [demoList EXCEPT !.acked = @ - 1, !.resolved = @ + 1]
    /\ lastEvent' = [NoEvent EXCEPT !.op = "respond"]
    /\ UNCHANGED <<sequenceState, timers, elapsed, generation, completions>>

DemoInit == DemoIdle /\ IngestIdle /\ SevIdle /\ LifeIdle /\ PushIdle /\ MoreIdle

DemoNext ==
    \/ StartDemoSequence /\ UNCHANGED <<ingestVars, sevVars, lifeVars, pushVars, moreVars>>
    \/ StopDemoSequence /\ UNCHANGED <<ingestVars, sevVars, lifeVars, pushVars, moreVars>>
    \/ \E i \in 1..Len(timers) : Fire(i) /\ UNCHANGED <<ingestVars, sevVars, lifeVars, pushVars, moreVars>>
    \/ Respond /\ UNCHANGED <<ingestVars, sevVars, lifeVars, pushVars, moreVars>>

SpecDemo == DemoInit /\ [][DemoNext]_vars

\* The sequence left to itself: the host never calls stopDemoSequence, and the
\* page fires every due timer.
FireNext == \E i \in 1..Len(timers) : Fire(i) /\ UNCHANGED <<ingestVars, sevVars, lifeVars, pushVars, moreVars>>

DemoNextUnstopped ==
    \/ StartDemoSequence /\ UNCHANGED <<ingestVars, sevVars, lifeVars, pushVars, moreVars>>
    \/ FireNext
    \/ Respond /\ UNCHANGED <<ingestVars, sevVars, lifeVars, pushVars, moreVars>>

SpecDemoFair == DemoInit /\ [][DemoNextUnstopped]_vars /\ WF_vars(FireNext)

(***************************************************************************)
(* Properties of the demo sequence orchestrator                            *)
(***************************************************************************)
Pending(kind) == { i \in 1..Len(timers) : timers[i].kind = kind }
Callbacks == {"addIncident", "ackIncident", "resolveIncident", "playAlert", "onComplete"}

\* C16: startDemoSequence on a running sequence changes nothing: SequenceState
\* with its counters, the pending timers and the list stay as they are, no
\* callback is invoked, and there is never more than one game loop.
C16_SecondStartIsNoOp ==
    /\ [](Cardinality(Pending("loop")) <= 1)
    /\ [][(sequenceState.isRunning /\ lastEvent'.op \in {"start", "start_ignored"}) =>
             /\ lastEvent'.op = "start_ignored"
             /\ lastEvent'.invoked = {}
             /\ UNCHANGED <<sequenceState, timers, demoList, elapsed, generation, completions>>
         ]_vars

\* a start was ignored in the middle of a sequence that had counted incidents
\* and teammate acks
C16_Witness ==
    /\ lastEvent.op = "start_ignored"
    /\ sequenceState.isRunning
    /\ sequenceState.incidentCount >= 6
    /\ sequenceState.teammateAckCount >= 1
    /\ Pending("loop") # {}

\* C17: once a sequence is stopped none of its timers is pending, and none of
\* the callbacks given to it is invoked again, also when the next sequence
\* was started meanwhile.
C17_StopCancelsEverything ==
    /\ ~sequenceState.isRunning => timers = <<>>
    /\ \A i \in 1..Len(timers) : timers[i].gen = generation
    /\ lastEvent.invoked # {} => lastEvent.gen = generation

\* C18: a sequence signals completion at most once, and when onComplete is
\* invoked the sequence is not running and none of its timers is pending.
C18_CompletesOnceAfterCancel ==
    /\ [](completions <= 1)
    /\ [][("onComplete" \in lastEvent'.invoked /\ lastEvent'.op \in {"loop", "timeout"}) =>
             /\ sequenceState.isRunning
             /\ ~sequenceState'.isRunning
             /\ completions = 0
             /\ completions' = 1
             /\ \A i \in 1..Len(timers') : timers'[i].gen # lastEvent'.gen
         ]_vars

\* C19: addIncident is invoked only below the ceiling of 10, the list never
\* exceeds it, and a refused add changes neither the list nor incidentCount
\* and schedules no alert.
C19_CeilingRespected ==
    /\ [](Length(demoList) <= 10)
    /\ [][/\ "addIncident" \in lastEvent'.invoked =>
                /\ Length(demoList) < 10
                /\ Length(demoList') = Length(demoList) + 1
          /\ lastEvent'.refused =>
                /\ Length(demoList) >= 10
                /\ demoList' = demoList
                /\ sequenceState'.incidentCount =
                      (IF lastEvent'.op = "start" THEN 0 ELSE sequenceState.incidentCount)
                /\ "addIncident" \notin lastEvent'.invoked
                /\ Cardinality(Pending("alert")') <= Cardinality(Pending("alert"))
         ]_vars

\* a scripted add was refused on a full list, in a sequence started on the
\* incidents an earlier sequence had left
C19_Witness ==
    /\ lastEvent.refused
    /\ lastEvent.op = "script"
    /\ Length(demoList) = 10
    /\ generation = 2
    /\ sequenceState.incidentCount < 10

\* C20: a running sequence that nobody stops ends: it becomes not running with
\* completion signalled once, and no timer of it fires after 60000 ms.
C20_SequenceTerminates ==
    /\ [](sequenceState.isRunning => elapsed <= 60000)
    /\ (sequenceState.isRunning ~> (~sequenceState.isRunning /\ completions = 1))

\* the sequence ran its full 60 seconds and ended by the timeout with an
\* incident still triggered
C20_Witness ==
    /\ lastEvent.op = "timeout"
    /\ "onComplete" \in lastEvent.invoked
    /\ elapsed = 60000
    /\ ~sequenceState.isRunning
    /\ demoList.triggered > 0

\* C28: onComplete is invoked either by the timeout or by a game-loop tick of
\* the running sequence at which it has created at least 8 incidents and the
\* list holds no triggered and no acked incident; a tick at which that holds
\* invokes onComplete and nothing else, and leaves the list as it is.
C28_EarlyCompletionOnlyByWin ==
    [][ LET won == /\ sequenceState.isRunning
                   /\ sequenceState.incidentCount >= 8
                   /\ demoList.triggered = 0
                   /\ demoList.acked = 0
        IN  /\ "onComplete" \in lastEvent'.invoked =>
                  \/ lastEvent'.op = "timeout" /\ elapsed' = 60000
                  \/ lastEvent'.op = "loop" /\ won
            /\ (lastEvent'.op = "loop" /\ won) =>
                  /\ lastEvent'.invoked = {"onComplete"}
                  /\ ~lastEvent'.refused
                  /\ demoList' = demoList
                  /\ sequenceState'.incidentCount = sequenceState.incidentCount
                  /\ sequenceState'.teammateAckCount = sequenceState.teammateAckCount
                  /\ ~sequenceState'.isRunning ]_vars

\* a sequence was won before its timeout
C28_Witness ==
    /\ lastEvent.op = "loop"
    /\ lastEvent.invoked = {"onComplete"}
    /\ elapsed < 60000
    /\ sequenceState.incidentCount >= 8
    /\ demoList.resolved >= 8

(***************************************************************************)
(* Cloud backend configuration kept in localStorage (backends.ts).  A      *)
(* backend is its id and its name; the other fields are carried along and  *)
(* never read by these functions.  Ids are the values of                   *)
(* crypto.randomUUID(), numbered in the order they are drawn; an id of 0   *)
(* stands for null.                                                        *)
(***************************************************************************)
NoId == 0
BackendNames == {"Default", "Staging"}
BackendIds == 1..MaxBackends

\* JSON.stringify and JSON.parse of the backends array
JSONstringify(backends) == [json |-> backends]
JSONparseArray(text) == text.json

setItem(ls, key, value) == [ls EXCEPT ![key] = [present |-> TRUE, value |-> value]]
removeItem(ls, key) == [ls EXCEPT ![key] = NoItem]

\* stored ? JSON.parse(stored) : []
getBackends(ls) ==
    IF ls.backends.present THEN JSONparseArray(ls.backends.value) ELSE <<>>

saveBackends(ls, backends) == setItem(ls, "backends", JSONstringify(backends))

\* localStorage.getItem(ACTIVE_BACKEND_KEY)
getActiveBackendId(ls) == IF ls.active.present THEN ls.active.value ELSE NoId

setActiveBackendId(ls, id) ==
    IF id # NoId THEN setItem(ls, "active", id) ELSE removeItem(ls, "active")

\* a plausible slip: every added backend becomes the active one
addBackendAlwaysActive(ls, name, uuid) ==
    LET backends == Append(getBackends(ls), [id |-> uuid, name |-> name])
    IN  setActiveBackendId(saveBackends(ls, backends), uuid)

addBackend(ls, name, uuid) ==
    LET backends == Append(getBackends(ls), [id |-> uuid, name |-> name])
        saved == saveBackends(ls, backends)
    IN  IF Len(backends) = 1 THEN setActiveBackendId(saved, uuid) ELSE saved

updateBackend(ls, id, name) ==
    LET backends == getBackends(ls) IN
    IF \E i \in 1..Len(backends) : backends[i].id = id
    THEN saveBackends(ls, [i \in 1..Len(backends) |->
                             IF backends[i].id = id
                                  /\ \A j \in 1..(i - 1) : backends[j].id # id
                             THEN [backends[i] EXCEPT !.name = name]
                             ELSE backends[i]])
    ELSE ls

deleteBackend(ls, id) ==
    LET backends == SelectSeq(getBackends(ls), LAMBDA b : b.id # id)
        saved == saveBackends(ls, backends)
    IN  IF getActiveBackendId(saved) = id
        THEN setActiveBackendId(saved, IF Len(backends) > 0 THEN backends[1].id ELSE NoId)
        ELSE saved

\* getActiveBackend(): the stored backend with the active id, or null
getActiveBackend(ls) ==
    LET activeId == getActiveBackendId(ls)
        found == SelectSeq(getBackends(ls), LAMBDA b : b.id = activeId)
    IN  IF activeId = NoId \/ Len(found) = 0 THEN NoId ELSE found[1].id

AddBackend ==
    /\ uuids < MaxBackends
    /\ \E name \in BackendNames :
          localStorage' = addBackend(localStorage, name, uuids + 1)
    /\ uuids' = uuids + 1

UpdateBackend ==
    /\ \E id \in BackendIds, name \in BackendNames :
          localStorage' = updateBackend(localStorage, id, name)
    /\ UNCHANGED uuids

DeleteBackend ==
    /\ \E id \in BackendIds : localStorage' = deleteBackend(localStorage, id)
    /\ UNCHANGED uuids

BackendInit == BackendIdle /\ DeviceIdle /\ CloudIdle
                 /\ IngestIdle /\ SevIdle /\ LifeIdle /\ PushIdle /\ DemoIdle

BackendNext ==
    \/ AddBackend /\ UNCHANGED <<ingestVars, sevVars, lifeVars, pushVars, demoVars, deviceVars, cloudVars>>
    \/ UpdateBackend /\ UNCHANGED <<ingestVars, sevVars, lifeVars, pushVars, demoVars, deviceVars, cloudVars>>
    \/ DeleteBackend /\ UNCHANGED <<ingestVars, sevVars, lifeVars, pushVars, demoVars, deviceVars, cloudVars>>

SpecBackends == BackendInit /\ [][BackendNext]_vars

(***************************************************************************)
(* Properties of the backend configuration                                 *)
(***************************************************************************)
\* what the two items hold
StoredIds(ls) ==
    IF ls.backends.present
    THEN [i \in 1..Len(ls.backends.value.json) |-> ls.backends.value.json[i].id]
    ELSE <<>>
ActiveId(ls) == IF ls.active.present THEN ls.active.value ELSE 0
Holds(ids, id) == \E i \in 1..Len(ids) : ids[i] = id

\* C23: the active id is null exactly when no backend is stored and otherwise
\* the id of a stored backend (which getActiveBackend then returns); the first
\* backend added becomes active; adding further backends, updating, or
\* deleting a non-active backend leaves the active id unchanged; deleting the
\* active backend makes the first remaining backend active, or clears the id.
C23_ActiveBackendIsStored ==
    /\ [](LET ids == StoredIds(localStorage)
              active == ActiveId(localStorage)
          IN  /\ (active = 0) = (Len(ids) = 0)
              /\ active # 0 => Holds(ids, active)
              /\ getActiveBackend(localStorage) = active)
    /\ [][LET ids == StoredIds(localStorage)
              after == StoredIds(localStorage')
              active == ActiveId(localStorage)
          IN  /\ (Len(ids) = 0 /\ Len(after) = 1) => ActiveId(localStorage') = after[1]
              /\ (Len(ids) > 0 /\ Len(after) >= Len(ids)) => ActiveId(localStorage') = active
              /\ (Len(after) < Len(ids) /\ Holds(after, active))
                    => ActiveId(localStorage') = active
              /\ (Len(after) < Len(ids) /\ ~Holds(after, active))
                    => ActiveId(localStorage') = (IF Len(after) > 0 THEN after[1] ELSE 0)
         ]_vars

\* the active backend was deleted while two others were stored, and the
\* first of them is now active
C23_Witness ==
    /\ uuids = 3
    /\ StoredIds(localStorage) = <<2, 3>>
    /\ ActiveId(localStorage) = 2

(***************************************************************************)
(* The devices handler (devices.ts): registration, removal and the test    *)
(* push.  One action is one invocation, from the request to the reply; the *)
(* store may reject a command, and sendPushNotification is taken by what   *)
(* it can give back to its caller.  An empty string is a value that is     *)
(* missing or empty (falsy); created_at is not read by anyone here.        *)
(***************************************************************************)
Callers == {NULL, "u1", "u2"}
RoutePost == "POST /devices"
RouteDelete == "DELETE /devices/{token}"
RouteTestPush == "POST /devices/test-push"
RouteOther == "GET /devices"
BodyTokens == {"", "tokA"}
TestTokens == {"", "tokA", "tokB"}
PathTokens == {"", "tok%41"}
Platforms == {"", "ios", "android", "web", "windows"}
SandboxFlags == {"true", "unset"}

\* decodeURIComponent
decodeURIComponent(text) == IF text = "tok%41" THEN "tokA" ELSE text

Request(userId, route, parsable, token, platform, sandbox) ==
    [NoCall EXCEPT !.userId = userId, !.route = route, !.parsable = parsable,
                   !.token = token, !.platform = platform, !.sandbox = sandbox]

\* jsonResponse(status, { error }) or jsonResponse(status, { message })
Reply(call, status, error) == [call EXCEPT !.status = status, !.error = error]

\* a plausible slip: the platform is not checked against the list
validPlatformAny(platform) == TRUE

\* ["ios", "android", "web"].includes(platform)
validPlatform(platform) == platform \in {"ios", "android", "web"}

SameKey(d, userId, token) == d.user_id = userId /\ d.device_token = token

\* PutCommand on DEVICES_TABLE, keyed by (user_id, device_token)
PutDevice(table, item) ==
    { d \in table : ~SameKey(d, item.user_id, item.device_token) } \cup {item}

\* DeleteCommand with Key { user_id, device_token }
DeleteDevice(table, userId, token) == { d \in table : ~SameKey(d, userId, token) }

\* a plausible slip: the key condition names the token only
QueryDeviceByToken(table, userId, token) == { d \in table : d.device_token = token }

\* QueryCommand with user_id = :uid AND device_token = :token
QueryDevice(table, userId, token) == { d \in table : SameKey(d, userId, token) }

\* what sendPushNotification gives back for a device: a result (with an
\* error text that may be empty), an exception, or nothing at all
PushOutcomes(device) ==
    IF ~deliverable(device)
    THEN { [kind |-> "result", result |-> Failure("Non-iOS device")] }
    ELSE { [kind |-> "result", result |-> r] :
              r \in {Success, Failure("APNs not configured"),
                      Failure("BadDeviceToken"), Failure("")} }
         \cup { [kind |-> "throws", result |-> Failure(NULL)],
                [kind |-> "pending", result |-> Failure(NULL)] }

\* POST /devices
register(table, call) ==
    IF ~call.parsable
    THEN [table |-> table, call |-> Reply(call, 500, "Internal server error")]
    ELSE IF call.token = "" \/ call.platform = ""
    THEN [table |-> table, call |-> Reply(call, 400, "Missing token or platform")]
    ELSE IF ~validPlatform(call.platform)
    THEN [table |-> table, call |-> Reply(call, 400, "Invalid platform")]
    ELSE LET device == [user_id |-> call.userId, device_token |-> call.token,
                        platform |-> call.platform,
                        sandbox |-> IF call.sandbox = "true" THEN "true" ELSE "false"]
             sent == [call EXCEPT !.puts = Append(@, device)]
         IN  IF call.storeFailed
             THEN [table |-> table, call |-> Reply(sent, 500, "Internal server error")]
             ELSE [table |-> PutDevice(table, device), call |-> Reply(sent, 201, "")]

\* DELETE /devices/{token}
unregister(table, call) ==
    IF call.token = ""
    THEN [table |-> table, call |-> Reply(call, 400, "Missing token")]
    ELSE IF call.storeFailed
    THEN [table |-> table, call |-> Reply(call, 500, "Internal server error")]
    ELSE [table |-> DeleteDevice(table, call.userId, decodeURIComponent(call.token)),
          call |-> Reply(call, 200, "")]

\* POST /devices/test-push; push is what sendPushNotification gives back if
\* it is called
testPush(table, call, push) ==
    LET Items == QueryDevice(table, call.userId, call.token) IN
    IF ~call.parsable
    THEN [table |-> table, call |-> Reply(call, 500, "Internal server error")]
    ELSE IF call.token = ""
    THEN [table |-> table, call |-> Reply(call, 400, "Missing token")]
    ELSE IF call.storeFailed
    THEN [table |-> table, call |-> Reply(call, 500, "Internal server error")]
    ELSE IF Items = {}
    THEN [table |-> table, call |-> Reply(call, 404, "Device not found")]
    ELSE LET device == CHOOSE d \in Items : TRUE
             called == [call EXCEPT !.dispatched = Append(@, device), !.push = push]
         IN  IF push.kind = "pending" THEN [table |-> table, call |-> called]
             ELSE IF push.kind = "throws"
             THEN [table |-> table, call |-> Reply(called, 500, "Internal server error")]
             ELSE IF push.result.success
             THEN [table |-> table, call |-> Reply(called, 200, "")]
             ELSE [table |-> table,
                   call |-> Reply(called, 500,
                                  IF push.result.error # "" THEN push.result.error
                                  ELSE "Failed to send notification")]

\* handler(event): the authentication check, then the routes
devicesHandler(table, call, push) ==
    IF call.userId = NULL
    THEN [table |-> table, call |-> Reply(call, 401, "Unauthorized")]
    ELSE IF call.route = RoutePost THEN register(table, call)
    ELSE IF call.route = RouteDelete THEN unregister(table, call)
    ELSE IF call.route = RouteTestPush THEN testPush(table, call, push)
    ELSE [table |-> table, call |-> Reply(call, 404, "Not found")]

Serve(request, push) ==
    LET after == devicesHandler(devicesTable, request, push) IN
    /\ devicesTable' = after.table
    /\ deviceCall' = after.call

RegisterDevice ==
    \E userId \in Callers, parsable \in BOOLEAN, token \in BodyTokens,
       platform \in Platforms, sandbox \in SandboxFlags, storeFailed \in BOOLEAN :
        /\ ~parsable => (token = "" /\ platform = "" /\ sandbox = "unset")
        /\ Serve([Request(userId, RoutePost, parsable, token, platform, sandbox)
                     EXCEPT !.storeFailed = storeFailed], NoPush)

UnregisterDevice ==
    \E userId \in Callers, token \in PathTokens, storeFailed \in BOOLEAN :
        Serve([Request(userId, RouteDelete, TRUE, token, "", "unset")
                 EXCEPT !.storeFailed = storeFailed], NoPush)

TestPush ==
    \E userId \in Callers, parsable \in BOOLEAN, token \in TestTokens,
       storeFailed \in BOOLEAN :
        /\ ~parsable => token = ""
        /\ LET request == [Request(userId, RouteTestPush, parsable, token, "", "unset")
                             EXCEPT !.storeFailed = storeFailed]
               Items == QueryDevice(devicesTable, userId, token)
           IN  \E push \in (IF Items = {} THEN {NoPush}
                             ELSE PushOutcomes(CHOOSE d \in Items : TRUE)) :
                  Serve(request, push)

OtherRoute ==
    \E userId \in Callers : Serve(Request(userId, RouteOther, TRUE, "", "", "unset"), NoPush)

DeviceInit == DeviceIdle /\ BackendIdle /\ CloudIdle
                /\ IngestIdle /\ SevIdle /\ LifeIdle /\ PushIdle /\ DemoIdle

DeviceNext ==
    \/ RegisterDevice /\ UNCHANGED <<ingestVars, sevVars, lifeVars, pushVars, demoVars, backendVars, cloudVars>>
    \/ UnregisterDevice /\ UNCHANGED <<ingestVars, sevVars, lifeVars, pushVars, demoVars, backendVars, cloudVars>>
    \/ TestPush /\ UNCHANGED <<ingestVars, sevVars, lifeVars, pushVars, demoVars, backendVars, cloudVars>>
    \/ OtherRoute /\ UNCHANGED <<ingestVars, sevVars, lifeVars, pushVars, demoVars, backendVars, cloudVars>>

SpecDevices == DeviceInit /\ [][DeviceNext]_vars

(***************************************************************************)
(* Properties of the devices handler                                       *)
(***************************************************************************)
\* a registration that passes the checks of the handler
Registrable(call) ==
    /\ call.userId # NULL
    /\ call.parsable
    /\ call.token # ""
    /\ call.platform \in {"ios", "android", "web"}

\* C21: a registration sends a device record to the store if and only if the
\* caller is authenticated and the body carries a token and a platform that is
\* ios, android or web; the record has the caller's user id, and when the
\* store accepts it the reply is 201 and the table holds it.  Without a user
\* id the reply is 401, a missing token or platform gets 400 "Missing token
\* or platform", another platform 400 "Invalid platform", and in these cases
\* the table is left as it was.
C21_RegistrationChecks ==
    /\ [](LET call == deviceCall IN
          /\ call.route # "none" /\ call.userId = NULL =>
                /\ call.status = 401 /\ call.error = "Unauthorized"
                /\ call.puts = <<>>
          /\ call.route = "POST /devices" =>
                /\ (Len(call.puts) = 1) = Registrable(call)
                /\ Len(call.puts) <= 1
                /\ Registrable(call) =>
                      /\ call.puts[1].user_id = call.userId
                      /\ call.puts[1].device_token = call.token
                      /\ call.puts[1].platform = call.platform
                      /\ (call.status = 201) = ~call.storeFailed
                      /\ ~call.storeFailed => call.puts[1] \in devicesTable
                /\ (call.userId # NULL /\ call.parsable
                       /\ (call.token = "" \/ call.platform = "")) =>
                      /\ call.status = 400
                      /\ call.error = "Missing token or platform"
                /\ (call.userId # NULL /\ call.parsable /\ call.token # ""
                       /\ call.platform \notin {"", "ios", "android", "web"}) =>
                      /\ call.status = 400
                      /\ call.error = "Invalid platform"
                /\ call.status = 201 => Registrable(call))
    /\ [][LET call == deviceCall' IN
          /\ (call.route = "POST /devices" /\ call.status # 201) =>
                devicesTable' = devicesTable
          /\ (call.route = "POST /devices" /\ call.status = 201) =>
                /\ devicesTable' \ devicesTable \subseteq {call.puts[1]}
                /\ \A d \in devicesTable \ devicesTable' :
                      d.user_id = call.userId /\ d.device_token = call.token
          /\ call.userId = NULL => devicesTable' = devicesTable
         ]_vars

\* u2 registered the token that u1 had registered before: the table holds
\* one record for each of them
C21_Witness ==
    /\ deviceCall.route = "POST /devices"
    /\ deviceCall.status = 201
    /\ deviceCall.userId = "u2"
    /\ deviceCall.puts[1] \in devicesTable
    /\ \E d \in devicesTable : d.user_id = "u1" /\ d.device_token = deviceCall.token

\* C22: sendPushNotification is called at most once per request, only by a
\* test push, and only with the record the table holds for the caller's user
\* id and the token of the body; without such a record the reply is 404
\* "Device not found" and nothing is sent; a successful result gives 200, a
\* failed one 500 with its error, or "Failed to send notification" without one.
C22_TestPushOnlyToOwnDevice ==
    LET call == deviceCall IN
    /\ Len(call.dispatched) <= 1
    /\ call.route # "POST /devices/test-push" => call.dispatched = <<>>
    /\ \A i \in 1..Len(call.dispatched) :
          /\ call.dispatched[i] \in devicesTable
          /\ call.dispatched[i].user_id = call.userId
          /\ call.dispatched[i].device_token = call.token
          /\ call.userId # NULL
    /\ call.route = "POST /devices/test-push" =>
          /\ (/\ call.userId # NULL /\ call.parsable /\ call.token # ""
               /\ ~call.storeFailed
               /\ ~\E d \in devicesTable :
                      d.user_id = call.userId /\ d.device_token = call.token) =>
                /\ call.status = 404
                /\ call.error = "Device not found"
                /\ call.dispatched = <<>>
          /\ call.status = 200 =>
                /\ Len(call.dispatched) = 1
                /\ call.push.kind = "result"
                /\ call.push.result.success
          /\ (call.push.kind = "result" /\ call.push.result.success) => call.status = 200
          /\ (call.push.kind = "result" /\ ~call.push.result.success) =>
                /\ call.status = 500
                /\ call.error = IF call.push.result.error = ""
                                THEN "Failed to send notification"
                                ELSE call.push.result.error

\* u1 asked for a test push to its own device while u2 has a device with the
\* same token; the result carried no error text
C22_Witness ==
    /\ deviceCall.route = "POST /devices/test-push"
    /\ deviceCall.userId = "u1"
    /\ Len(deviceCall.dispatched) = 1
    /\ deviceCall.status = 500
    /\ deviceCall.error = "Failed to send notification"
    /\ \E d \in devicesTable : d.user_id = "u2" /\ d.device_token = deviceCall.token

(***************************************************************************)
(* The cloud demo (demo.ts, POST /demo/start): the handler publishes the   *)
(* alarms of its table to the alarms topic one after the other, and the    *)
(* alarm handler turns each delivered message into an incident.  The       *)
(* demo's team and its on-call user were created by POST /demo/setup.      *)
(***************************************************************************)
DEMO_ALARMS ==
    << [name |-> <<"C", "P", "U", "-", "U", "t", "i", "l", "i", "z", "a", "t", "i", "o", "n", "-", "C", "r", "i", "t", "i", "c", "a", "l">>,
        severity |-> "critical"],
       [name |-> <<"M", "e", "m", "o", "r", "y", "-", "P", "r", "e", "s", "s", "u", "r", "e", "-", "W", "a", "r", "n", "i", "n", "g">>,
        severity |-> "warning"],
       [name |-> <<"D", "i", "s", "k", "S", "p", "a", "c", "e", "-", "L", "o", "w", "-", "W", "a", "r", "n", "i", "n", "g">>,
        severity |-> "warning"],
       [name |-> <<"A", "P", "I", "-", "L", "a", "t", "e", "n", "c", "y", "-", "C", "r", "i", "t", "i", "c", "a", "l">>,
        severity |-> "critical"],
       [name |-> <<"D", "B", "-", "C", "o", "n", "n", "e", "c", "t", "i", "o", "n", "s", "-", "C", "r", "i", "t", "i", "c", "a", "l">>,
        severity |-> "critical"],
       [name |-> <<"L", "a", "m", "b", "d", "a", "-", "E", "r", "r", "o", "r", "s", "-", "W", "a", "r", "n", "i", "n", "g">>,
        severity |-> "warning"],
       [name |-> <<"N", "e", "t", "w", "o", "r", "k", "-", "S", "a", "t", "u", "r", "a", "t", "i", "o", "n", "-", "I", "n", "f", "o">>,
        severity |-> "info"],
       [name |-> <<"C", "a", "c", "h", "e", "-", "H", "i", "t", "-", "R", "a", "t", "e", "-", "W", "a", "r", "n", "i", "n", "g">>,
        severity |-> "warning"] >>

DEFAULT_TEAM_ID == "fault-tec-admins"
DEFAULT_AWS_ACCOUNT == "123456789012"
DemoUser == "u1"

\* body.aws_account_id; an empty string is a body without it
DemoAccounts == {"", "a1"}

\* the CloudWatchAlarmMessage the demo publishes for an alarm of its table
alarmMessage(alarm, awsAccountId) ==
    Message("ALARM", awsAccountId, alarm.name, <<"Demo", alarm.name>>)

\* POST /demo/start, one iteration of its loop: the next alarm of the table
\* is published; the account is taken from the body before the first one
PublishNext ==
    /\ Len(published) < Len(DEMO_ALARMS)
    /\ \E account \in DemoAccounts :
          LET awsAccountId ==
                 IF Len(published) > 0 THEN published[1].AWSAccountId
                 ELSE IF account # "" THEN account ELSE DEFAULT_AWS_ACCOUNT
          IN  published' = Append(published,
                                  alarmMessage(DEMO_ALARMS[Len(published) + 1], awsAccountId))
    /\ UNCHANGED <<delivered, clock, incidents, origin, hs>>

\* the topic delivers a published message to the alarm handler, which finds
\* the demo's team and on-call user and writes the incident
DeliverAlarm(k) ==
    /\ k \notin delivered
    /\ delivered' = delivered \cup {k}
    /\ incidents' = PutCommand(incidents,
                                newIncident(Len(incidents) + 1, DEFAULT_TEAM_ID,
                                            published[k], DemoUser, clock))
    /\ origin' = Append(origin, [h |-> 0, idx |-> k])
    /\ UNCHANGED <<published, clock, hs>>

CloudInit == CloudIdle /\ DeviceIdle /\ BackendIdle
               /\ IngestIdle /\ SevIdle /\ LifeIdle /\ PushIdle /\ DemoIdle

CloudNext ==
    \/ PublishNext /\ UNCHANGED <<sevVars, lifeVars, pushVars, demoVars, deviceVars, backendVars>>
    \/ \E k \in 1..Len(published) :
          DeliverAlarm(k) /\ UNCHANGED <<sevVars, lifeVars, pushVars, demoVars, deviceVars, backendVars>>

SpecCloudDemo == CloudInit /\ [][CloudNext]_vars

\* C30: every incident created by the cloud demo carries the severity that
\* the demo's table declares for its alarm.
C30_DeclaredSeverityIsDerived ==
    \A k \in 1..Len(incidents) :
        /\ incidents[k].alarm_name = DEMO_ALARMS[origin[k].idx].name
        /\ incidents[k].severity = DEMO_ALARMS[origin[k].idx].severity

====
